---- MODULE Spec2Model ----
(***************************************************************************)
(* A model of DockPiler's build-metadata translators:                      *)
(*   scripts/sln_parser.py      SlnParser    (solution graph, build order) *)
(*   scripts/vcxproj_parser.py  VcxprojParser (per-key settings resolver)  *)
(*                                                                         *)
(* Text is modelled at the granularity the regular expressions and the     *)
(* XML queries of the code see it: a solution file is a sequence of        *)
(* Project(...) ... EndProject blocks, a project file is a sequence of     *)
(* condition-guarded groups holding setting elements.                      *)
(***************************************************************************)
EXTENDS Integers, Sequences, FiniteSets, TLC

(***************************************************************************)
(* Bounds of the model.                                                    *)
(***************************************************************************)
\* most Project(...) entries in a solution file
MaxProjects == 3
\* most GUID pairs in all ProjectSection(ProjectDependencies) of one file
MaxDeps == 2

(***************************************************************************)
(* Generic helpers over sequences.                                         *)
(***************************************************************************)
Range(s) == {s[i] : i \in 1..Len(s)}

RECURSIVE SeqsOfLen(_, _)
SeqsOfLen(S, k) ==
    IF k = 0 THEN {<<>>}
    ELSE {Append(s, x) : s \in SeqsOfLen(S, k - 1), x \in S}

RECURSIVE CountIn(_, _)
CountIn(x, s) ==
    IF s = <<>> THEN 0
    ELSE (IF Head(s) = x THEN 1 ELSE 0) + CountIn(x, Tail(s))

RECURSIVE Repeat(_, _)
Repeat(x, k) == IF k = 0 THEN <<>> ELSE <<x>> \o Repeat(x, k - 1)

IsInjective(s) == \A i, j \in 1..Len(s) : s[i] = s[j] => i = j

IndexOf(x, s) == CHOOSE i \in 1..Len(s) : s[i] = x

(***************************************************************************)
(* Project names.  Python compares str by code point; the model's names    *)
(* are single capital letters, listed here in that order.                  *)
(***************************************************************************)
NameOrder == <<"A", "B", "C", "D", "E">>

NameRank(n) == IndexOf(n, NameOrder)

\* a < b on project names (str.__lt__)
NameLess(a, b) == NameRank(a) < NameRank(b)

(***************************************************************************)
(* SlnParser.PROJECT_TYPES: project type GUID -> type name.                *)
(***************************************************************************)
CppTypeGuid == "8BC9CEB8-8B4A-11D0-8D11-00A0C91BC942"
CSharpTypeGuid == "FAE04EC0-301F-11D3-BF4B-00C04F79EFBC"
FolderTypeGuid == "2150E333-8FDC-42A3-9474-1A3956D46DE8"

PROJECT_TYPES ==
    [g \in {CppTypeGuid, CSharpTypeGuid, "F184B08F-C81C-45F6-A57F-5ABD9991F28F",
            FolderTypeGuid, "930C7802-8A8C-48F9-8165-68863BCCD9DD",
            "E24C65DC-7377-472B-9ABA-BC803B73C61A",
            "9A19103F-16F7-4668-BE54-9A1E7A4F7556"} |->
        CASE g = CppTypeGuid -> "C++"
          [] g = CSharpTypeGuid -> "C#"
          [] g = "F184B08F-C81C-45F6-A57F-5ABD9991F28F" -> "VB.NET"
          [] g = FolderTypeGuid -> "SolutionFolder"
          [] g = "930C7802-8A8C-48F9-8165-68863BCCD9DD" -> "WiX"
          [] g = "E24C65DC-7377-472B-9ABA-BC803B73C61A" -> "Website"
          [] OTHER -> "C# SDK-style"]

\* self.PROJECT_TYPES.get(type_guid.upper(), 'Unknown')
ProjectTypeOf(type_guid) ==
    IF type_guid \in DOMAIN PROJECT_TYPES THEN PROJECT_TYPES[type_guid]
    ELSE "Unknown"

(***************************************************************************)
(* The solution file.  A file is a sequence of project blocks              *)
(*                                                                         *)
(*   Project("{type_guid}") = "name", "path", "{guid}"                     *)
(*       ProjectSection(ProjectDependencies) = postProject                 *)
(*           {dep} = {dep}            (one line per element of deps)       *)
(*       EndProjectSection                                                 *)
(*   EndProject                                                            *)
(*                                                                         *)
(* GUIDs are small integers standing for upper-cased GUID strings; the     *)
(* i-th block declares GUID i, and GUID n+1 is declared by no block.       *)
(* depsIn says where the text of the dependency section sits: "section"    *)
(* is the layout above (what Visual Studio writes); "path" is a file whose *)
(* quoted path string holds the text                                       *)
(* "ProjectDependencies {dep} = {dep} ... EndProjectSection" and whose     *)
(* block has no section lines ([^"]+ of PROJECT_PATTERN accepts it).       *)
(***************************************************************************)
\* how a file of n blocks names, types and lays out its projects: names
\* ascending, descending or repeated along the file; one C# project, or one
\* solution folder, among C++ projects
SlnLayouts(n) ==
    { [depsIn |-> "section",
       name |-> [i \in 1..n |-> NameOrder[i]],
       type_guid |-> [i \in 1..n |-> CppTypeGuid]],
      [depsIn |-> "path",
       name |-> [i \in 1..n |-> NameOrder[n + 1 - i]],
       type_guid |-> [i \in 1..n |->
                         IF i = n THEN CSharpTypeGuid ELSE CppTypeGuid]],
      [depsIn |-> "path",
       name |-> [i \in 1..n |-> NameOrder[(i \div 2) + 1]],
       type_guid |-> [i \in 1..n |->
                         IF i = 1 THEN FolderTypeGuid ELSE CppTypeGuid]] }

\* the dependency lists of blocks 1..i, over GUIDs 1..n+1, b pairs at most
RECURSIVE DepLayouts(_, _, _)
DepLayouts(i, n, b) ==
    IF i = 0 THEN {<<>>}
    ELSE UNION { { Append(m, s) : m \in DepLayouts(i - 1, n, b - k),
                                  s \in SeqsOfLen(1..(n + 1), k) }
                 : k \in 0..b }

SlnFiles ==
    UNION { { [depsIn |-> l.depsIn,
               blocks |-> [i \in 1..n |->
                   [type_guid |-> l.type_guid[i], name |-> l.name[i],
                    guid |-> i, deps |-> dl[i]]]]
              : l \in SlnLayouts(n), dl \in DepLayouts(n, n, MaxDeps) }
            : n \in 1..MaxProjects }

(***************************************************************************)
(* SlnParser._parse_projects: the registry, in insertion order.            *)
(***************************************************************************)
ParseProjects(file) ==
    [i \in 1..Len(file.blocks) |->
        [guid |-> file.blocks[i].guid,
         name |-> file.blocks[i].name,
         project_type |-> ProjectTypeOf(file.blocks[i].type_guid)]]

(***************************************************************************)
(* SlnParser._parse_project_dependencies.                                  *)
(*                                                                         *)
(* project_block_pattern ends with the non-greedy ".*?EndProject", so a    *)
(* block's text stops at the first occurrence of the characters            *)
(* "EndProject" after the header.  BlockText lists what match.group(0)     *)
(* holds, as tokens <<kind, guid>>: Header, ProjectDependencies, Pair (a   *)
(* line "{g} = {g}"), EndProjectSection and EndProject (the bare ten       *)
(* characters).                                                            *)
(***************************************************************************)
Tok(kind) == <<kind, 0>>

PairTokens(deps) == [i \in 1..Len(deps) |-> <<"Pair", deps[i]>>]

BlockText(file, b) ==
    IF file.depsIn = "path"
    THEN <<Tok("Header"), Tok("ProjectDependencies")>> \o PairTokens(b.deps)
             \o <<Tok("EndProjectSection"), Tok("EndProject")>>
    ELSE IF b.deps = <<>>
    THEN <<Tok("Header"), Tok("EndProject")>>
    \* the first "EndProject" is the head of the line "EndProjectSection"
    ELSE <<Tok("Header"), Tok("ProjectDependencies")>> \o PairTokens(b.deps)
             \o <<Tok("EndProject")>>

\* str.find(tok, start): first index >= start holding tok, 0 when none
FindToken(text, kind, start) ==
    IF \E i \in start..Len(text) : text[i][1] = kind
    THEN CHOOSE i \in start..Len(text) :
             text[i][1] = kind /\ \A j \in start..(i - 1) : text[j][1] # kind
    ELSE 0

\* dependency_pattern.finditer over text[from..to-1]: the GUIDs, in order
RECURSIVE PairsBetween(_, _, _)
PairsBetween(text, from, to) ==
    IF from >= to THEN <<>>
    ELSE (IF text[from][1] = "Pair" THEN <<text[from][2]>> ELSE <<>>)
         \o PairsBetween(text, from + 1, to)

BlockDependencies(file, b) ==
    LET text == BlockText(file, b)
        deps_start == FindToken(text, "ProjectDependencies", 1)
        deps_end == IF deps_start = 0 THEN 0
                    ELSE FindToken(text, "EndProjectSection", deps_start)
    IN  IF deps_start # 0 /\ deps_end # 0
        THEN PairsBetween(text, deps_start, deps_end)
        ELSE <<>>

ParseProjectDependencies(file) ==
    [g \in 1..Len(file.blocks) |-> BlockDependencies(file, file.blocks[g])]

(***************************************************************************)
(* State.                                                                  *)
(*   content, projects, dependencies, build_configurations                 *)
(*                  fields of one SlnParser                                *)
(*   warnings       what the parser has reported to its caller or operator *)
(*                  (stderr, log, exception): the code writes none         *)
(*   pc             position of the parser's caller                        *)
(*   project_type, relevant_projects, in_degree, graph, queue, result      *)
(*                  the locals of a running get_build_order                *)
(*   emitted        the GUID the last iteration of the Kahn loop popped    *)
(*   ret            the value the last finished query returned             *)
(*   last_order     what the caller keeps of get_build_order: for each     *)
(*                  filter the order the last call with it returned        *)
(*                                                                         *)
(* and of one VcxprojParser and its caller:                                *)
(*   root           the parsed tree: the groups of the project file        *)
(*   resolved_key   the (config, platform) of the last parse_all call,     *)
(*                  <<>> before the first                                  *)
(*   settings       the record that call returned                          *)
(*   again          whether the call before it asked for the same key      *)
(***************************************************************************)
VARIABLES content, projects, dependencies, build_configurations, warnings,
          last_order, pc, project_type,
          relevant_projects, in_degree, graph, queue, result, emitted, ret,
          root, resolved_key, settings, again,
          project_data, library_mapper, generated, disk, call, returned

vcxVars == <<root, resolved_key, settings, again>>

genVars == <<project_data, library_mapper, generated, disk>>

callVars == <<call, returned>>

slnFields == <<content, projects, dependencies, build_configurations, warnings>>
slnLocals == <<project_type, relevant_projects, in_degree, graph, queue,
               result, emitted>>
slnVars == <<slnFields, slnLocals, pc, ret, last_order>>

vars == <<slnVars, vcxVars, genVars, callVars>>

\* the absent argument (project_type=None) and the value of unset locals
None == "None"

\* ret before any query has returned, and while one is running
NoReturn == [op |-> "none", arg |-> None, value |-> <<>>]

Filters == {None, "C++", "C#"}

\* the lines "config|platform = config|platform" of the file's
\* GlobalSection(SolutionConfigurationPlatforms): the files laid out with
\* the dependencies at the path carry none
ConfigurationLines(file) ==
    IF file.depsIn = "path" THEN <<>>
    ELSE << <<"Debug", "x64">>, <<"Release", "x64">>, <<"Debug", "x64">> >>

\* SlnParser._parse_configurations: each pair once, in the order of its
\* first line; the four default pairs when the file lists none
ParseConfigurations(file) ==
    LET lines == ConfigurationLines(file)
        RECURSIVE Found(_)
        Found(n) ==
            IF n = 0 THEN <<>>
            ELSE IF lines[n] \in Range(Found(n - 1)) THEN Found(n - 1)
            ELSE Append(Found(n - 1), lines[n])
    IN  IF Found(Len(lines)) # <<>> THEN Found(Len(lines))
        ELSE << <<"Debug", "Win32">>, <<"Debug", "x64">>,
                <<"Release", "Win32">>, <<"Release", "x64">> >>

\* SlnParser.__init__: read the file, _parse().  No VcxprojParser is
\* constructed in the runs of the solution parser.
SlnInit ==
    /\ content \in SlnFiles
    /\ projects = ParseProjects(content)
    /\ dependencies = ParseProjectDependencies(content)
    /\ build_configurations = ParseConfigurations(content)
    /\ warnings = <<>>
    /\ last_order = [ptype \in Filters |-> <<>>]
    /\ pc = "idle"
    /\ ret = NoReturn
    /\ project_type = None
    /\ relevant_projects = <<>>
    /\ in_degree = <<>>
    /\ graph = <<>>
    /\ queue = <<>>
    /\ result = <<>>
    /\ emitted = 0
    /\ root = <<>>
    /\ resolved_key = <<>>
    /\ settings = <<>>
    /\ again = FALSE
    /\ project_data = <<>>
    /\ library_mapper = <<>>
    /\ generated = <<>>
    /\ disk = <<>>
    /\ call = <<>>
    /\ returned = <<>>

(***************************************************************************)
(* Registry lookups.  projects is the dict in insertion order; a GUID is a *)
(* key when some record carries it.                                        *)
(***************************************************************************)
Guids(projs) == {projs[i].guid : i \in 1..Len(projs)}

ProjectOf(projs, g) == projs[CHOOSE i \in 1..Len(projs) : projs[i].guid = g]

\* self.dependencies.get(guid, [])
DepsGet(deps, g) == IF g \in DOMAIN deps THEN deps[g] ELSE <<>>

\* self.dependencies after self.dependencies[guid]: the defaultdict makes
\* an entry for a key it lacks
DepsAfterIndex(deps, g) ==
    IF g \in DOMAIN deps THEN deps ELSE deps @@ (g :> <<>>)

\* self.dependencies after self.dependencies.get(guid, []): get makes no
\* entry
DepsAfterGet(deps, g) == deps

\* [x for x in s if P(x)] for P = membership in a set
RECURSIVE FilterIn(_, _)
FilterIn(s, S) ==
    IF s = <<>> THEN <<>>
    ELSE (IF Head(s) \in S THEN <<Head(s)>> ELSE <<>>) \o FilterIn(Tail(s), S)

(***************************************************************************)
(* SlnParser.get_project_dependencies                                      *)
(***************************************************************************)
ProjectDependenciesOf(projs, deps, g) ==
    LET dep_guids == FilterIn(DepsGet(deps, g), Guids(projs))
    IN  [i \in 1..Len(dep_guids) |-> ProjectOf(projs, dep_guids[i])]

GetProjectDependencies(g) ==
    /\ pc = "idle"
    /\ ret' = [op |-> "get_project_dependencies", arg |-> g,
               value |-> ProjectDependenciesOf(projects, dependencies, g)]
    /\ dependencies' = DepsAfterGet(dependencies, g)
    /\ UNCHANGED <<content, projects, build_configurations, warnings,
                   last_order, slnLocals, pc, vcxVars, genVars, callVars>>

(***************************************************************************)
(* SlnParser.get_cpp_projects and get_configurations.  The project files   *)
(* of the model's C++ projects are .vcxproj files.                         *)
(***************************************************************************)
CppProjects(projs) ==
    LET RECURSIVE Walk(_)
        Walk(i) == IF i > Len(projs) THEN <<>>
                   ELSE (IF projs[i].project_type = "C++" THEN <<projs[i]>>
                         ELSE <<>>) \o Walk(i + 1)
    IN  Walk(1)

GetCppProjects ==
    /\ pc = "idle"
    /\ ret' = [op |-> "get_cpp_projects", arg |-> None,
               value |-> CppProjects(projects)]
    /\ UNCHANGED <<slnFields, last_order, slnLocals, pc, vcxVars, genVars,
                   callVars>>

GetConfigurations ==
    /\ pc = "idle"
    /\ ret' = [op |-> "get_configurations", arg |-> None,
               value |-> build_configurations]
    /\ UNCHANGED <<slnFields, last_order, slnLocals, pc, vcxVars, genVars,
                   callVars>>

(***************************************************************************)
(* SlnParser.get_build_order, lines 163-192: the filter, the in-degrees,   *)
(* the graph and the first queue.                                          *)
(***************************************************************************)
\* the keys of relevant_projects, in the registry's order
RelevantProjects(projs, ptype) ==
    LET keep == IF ptype # None
                THEN {i \in 1..Len(projs) : projs[i].project_type = ptype}
                ELSE {i \in 1..Len(projs) :
                          projs[i].project_type # "SolutionFolder"}
        RECURSIVE Walk(_)
        Walk(i) == IF i > Len(projs) THEN <<>>
                   ELSE (IF i \in keep THEN <<projs[i].guid>> ELSE <<>>)
                        \o Walk(i + 1)
    IN  Walk(1)

\* in_degree counted without the test "if dep_guid in relevant_projects"
InDegreeOfAllListed(rel, deps) ==
    [g \in Range(rel) |-> Len(DepsGet(deps, g))]

\* in_degree[guid]: one per listed dependency that is relevant
InDegree(rel, deps) ==
    [g \in Range(rel) |-> Len(FilterIn(DepsGet(deps, g), Range(rel)))]

\* graph[d]: the dependents of d, in the order the double loop appends them
Graph(rel, deps) ==
    LET RECURSIVE Dependents(_, _)
        Dependents(d, i) ==
            IF i > Len(rel) THEN <<>>
            ELSE Repeat(rel[i], CountIn(d, DepsGet(deps, rel[i])))
                 \o Dependents(d, i + 1)
    IN  [d \in Range(rel) |-> Dependents(d, 1)]

\* [guid for guid in relevant_projects if in_degree[guid] == 0]
ZeroInDegree(rel, deg) == FilterIn(rel, {g \in Range(rel) : deg[g] = 0})

GetBuildOrderBegin(ptype) ==
    /\ pc = "idle"
    /\ pc' = "kahn"
    /\ project_type' = ptype
    /\ relevant_projects' = RelevantProjects(projects, ptype)
    /\ in_degree' = InDegree(relevant_projects', dependencies)
    /\ graph' = Graph(relevant_projects', dependencies)
    /\ queue' = ZeroInDegree(relevant_projects', in_degree')
    /\ result' = <<>>
    /\ emitted' = 0
    /\ ret' = NoReturn
    /\ UNCHANGED <<slnFields, last_order, vcxVars, genVars, callVars>>

(***************************************************************************)
(* One iteration of the while loop, lines 194-203.                         *)
(***************************************************************************)
\* list.sort(key=name): stable, ascending
RECURSIVE InsertByName(_, _, _)
InsertByName(g, sorted, projs) ==
    IF sorted = <<>> THEN <<g>>
    ELSE IF NameLess(ProjectOf(projs, g).name,
                     ProjectOf(projs, Head(sorted)).name)
    THEN <<g>> \o sorted
    ELSE <<Head(sorted)>> \o InsertByName(g, Tail(sorted), projs)

RECURSIVE SortByName(_, _)
SortByName(q, projs) ==
    IF q = <<>> THEN <<>>
    ELSE InsertByName(q[Len(q)], SortByName(SubSeq(q, 1, Len(q) - 1), projs),
                      projs)

\* for neighbor in graph[current]: decrement, append when it reaches zero
RECURSIVE Relax(_, _, _)
Relax(nbrs, deg, q) ==
    IF nbrs = <<>> THEN [in_degree |-> deg, queue |-> q]
    ELSE LET n == Head(nbrs)
             d == [deg EXCEPT ![n] = @ - 1]
         IN  Relax(Tail(nbrs), d, IF d[n] = 0 THEN Append(q, n) ELSE q)

KahnStep ==
    /\ pc = "kahn"
    /\ queue # <<>>
    /\ LET sorted == SortByName(queue, projects)
           current == Head(sorted)
           after == Relax(graph[current], in_degree, Tail(sorted))
       IN  /\ emitted' = current
           /\ result' = Append(result, ProjectOf(projects, current))
           /\ in_degree' = after.in_degree
           /\ queue' = after.queue
    /\ UNCHANGED <<slnFields, project_type, relevant_projects, graph, pc, ret,
                   last_order, vcxVars, genVars, callVars>>

(***************************************************************************)
(* The cycle check, lines 205-210, once the queue is empty.                *)
(***************************************************************************)
\* the cycle check without its result.extend(remaining)
RemainingDropped(rel, projs, res) == <<>>

\* the remainder walked in name order instead of the registry's order
RemainingByName(rel, projs, res) ==
    LET left == FilterIn(rel, {g \in Range(rel) :
                                   ProjectOf(projs, g) \notin Range(res)})
        byName == SortByName(left, projs)
    IN  [i \in 1..Len(byName) |-> ProjectOf(projs, byName[i])]

\* [p for g, p in relevant_projects.items() if p not in result]
Remaining(rel, projs, res) ==
    LET left == FilterIn(rel, {g \in Range(rel) :
                                   ProjectOf(projs, g) \notin Range(res)})
    IN  [i \in 1..Len(left) |-> ProjectOf(projs, left[i])]

CycleCheck ==
    /\ pc = "kahn"
    /\ queue = <<>>
    /\ pc' = "done"
    /\ result' = IF Len(result) # Len(relevant_projects)
                 THEN result \o Remaining(relevant_projects, projects, result)
                 ELSE result
    /\ UNCHANGED <<slnFields, project_type, relevant_projects, in_degree,
                   graph, queue, emitted, ret, last_order, vcxVars, genVars,
                   callVars>>

\* return result, line 212
GetBuildOrderReturn ==
    /\ pc = "done"
    /\ pc' = "idle"
    /\ ret' = [op |-> "get_build_order", arg |-> project_type,
               value |-> result]
    /\ project_type' = None
    /\ relevant_projects' = <<>>
    /\ in_degree' = <<>>
    /\ graph' = <<>>
    /\ queue' = <<>>
    /\ result' = <<>>
    /\ emitted' = 0
    /\ last_order' = [last_order EXCEPT ![project_type] = <<result>>]
    /\ UNCHANGED <<slnFields, vcxVars, genVars, callVars>>

SlnNext ==
    \/ \E g \in 1..(Len(projects) + 1) : GetProjectDependencies(g)
    \/ GetCppProjects
    \/ GetConfigurations
    \/ \E ptype \in Filters : GetBuildOrderBegin(ptype)
    \/ KahnStep
    \/ CycleCheck
    \/ GetBuildOrderReturn

SpecSln == SlnInit /\ [][SlnNext]_vars


(***************************************************************************)
(* The solution graph as the claims speak of it, read off the parser's     *)
(* fields and the file and never off the locals of get_build_order.        *)
(***************************************************************************)
\* a project matches a filter: a project type, or none = all but folders
MatchesFilter(p, ptype) ==
    IF ptype = None THEN p.project_type # "SolutionFolder"
    ELSE p.project_type = ptype

MatchingProjects(ptype) ==
    {projects[i] : i \in {j \in 1..Len(projects) :
                              MatchesFilter(projects[j], ptype)}}

MatchingGuids(ptype) == {p.guid : p \in MatchingProjects(ptype)}

\* the GUIDs a depends on in the dependency map, inside the set M
DependsOn(a, M) == Range(DepsGet(dependencies, a)) \cap M

\* the projects of M that can be ordered: the least set holding every
\* project whose dependencies inside M it holds
RECURSIVE Orderable(_, _)
Orderable(M, have) ==
    LET more == {g \in M \ have : DependsOn(g, M) \subseteq have}
    IN  IF more = {} THEN have ELSE Orderable(M, have \cup more)

\* no cycle and no self-dependency among the projects of M
Acyclic(M) == Orderable(M, {}) = M

\* get_build_order has returned; its value, as GUIDs and as names
BuildOrderReturned == ret.op = "get_build_order"

ReturnedGuids == [i \in 1..Len(ret.value) |-> ret.value[i].guid]

ReturnedNames == [i \in 1..Len(ret.value) |-> ret.value[i].name]

\* the position of GUID g in the returned order
ReturnedAt(g) == IndexOf(g, ReturnedGuids)

NameOfGuid(g) == ProjectOf(projects, g).name

\* the GUIDs in the order their blocks stand in the solution file
DeclarationOrder == [i \in 1..Len(content.blocks) |-> content.blocks[i].guid]

(***************************************************************************)
(* C1.  For every dependency map and every filter, get_build_order returns *)
(* a permutation of the projects matching the filter: each matching        *)
(* project exactly once and no other project, cycles and                   *)
(* self-dependencies included.                                             *)
(***************************************************************************)
C1_BuildOrderIsPermutation ==
    BuildOrderReturned =>
        /\ IsInjective(ret.value)
        /\ Range(ret.value) = MatchingProjects(ret.arg)

\* A and B depend on each other, both match the filter, both are returned
C1_Witness ==
    /\ BuildOrderReturned
    /\ \E a, b \in MatchingGuids(ret.arg) :
           /\ a # b
           /\ b \in DependsOn(a, MatchingGuids(ret.arg))
           /\ a \in DependsOn(b, MatchingGuids(ret.arg))
           /\ {a, b} \subseteq Range(ReturnedGuids)

(***************************************************************************)
(* C2.  When the filtered dependency graph is acyclic, for every edge      *)
(* "A depends on B" of the dependency map with A and B matching the        *)
(* filter, B stands before A in the sequence get_build_order returns.      *)
(***************************************************************************)
C2_DependenciesFirst ==
    (BuildOrderReturned /\ Acyclic(MatchingGuids(ret.arg))) =>
        \A a \in MatchingGuids(ret.arg) :
            \A b \in DependsOn(a, MatchingGuids(ret.arg)) :
                /\ {a, b} \subseteq Range(ReturnedGuids)
                /\ ReturnedAt(b) < ReturnedAt(a)

\* an acyclic chain a -> b -> c in which name order would put a first
C2_Witness ==
    /\ BuildOrderReturned
    /\ Acyclic(MatchingGuids(ret.arg))
    /\ \E a, b, c \in MatchingGuids(ret.arg) :
           /\ b \in DependsOn(a, MatchingGuids(ret.arg))
           /\ c \in DependsOn(b, MatchingGuids(ret.arg))
           /\ NameLess(NameOfGuid(a), NameOfGuid(b))
           /\ ReturnedAt(c) < ReturnedAt(b)
           /\ ReturnedAt(b) < ReturnedAt(a)

(***************************************************************************)
(* C3.  Parsing a solution file that declares projects A, B and C, where   *)
(* A's ProjectSection(ProjectDependencies) lists B's GUID and B's lists    *)
(* C's GUID, and then calling get_build_order yields the order [C, B, A].  *)
(***************************************************************************)
\* the file of the scenario, as Visual Studio writes it
ChainFile ==
    /\ content.depsIn = "section"
    /\ Len(content.blocks) = 3
    /\ [i \in 1..3 |-> content.blocks[i].name] = <<"A", "B", "C">>
    /\ [i \in 1..3 |-> content.blocks[i].deps] = <<<<2>>, <<3>>, <<>>>>

C3_ChainOrder ==
    (ChainFile /\ BuildOrderReturned /\ ret.arg = None) =>
        ReturnedNames = <<"C", "B", "A">>

(***************************************************************************)
(* C4.  After parsing a solution file, for every project P,                *)
(* get_project_dependencies(P.guid) returns exactly the registered         *)
(* projects whose GUIDs are listed in P's own                              *)
(* ProjectSection(ProjectDependencies) block: every declared direct        *)
(* dependency, and no project reachable only transitively.                 *)
(***************************************************************************)
C4_DeclaredDependencies ==
    (/\ ret.op = "get_project_dependencies"
     /\ content.depsIn = "section"
     /\ ret.arg \in 1..Len(content.blocks)) =>
        Range(ret.value) =
            {p \in Range(projects) :
                 p.guid \in Range(content.blocks[ret.arg].deps)}

(***************************************************************************)
(* C5.  At every step of the Kahn loop the project emitted next is the one *)
(* with the smallest name among the projects not yet emitted whose         *)
(* in-filter dependencies have all been emitted; the choice does not       *)
(* depend on the iteration order of the project or dependency maps, that   *)
(* is, on the order in which the ready projects stand in the queue.        *)
(***************************************************************************)
\* the orders a set of GUIDs can be walked in
Orderings(S) == {s \in SeqsOfLen(S, Cardinality(S)) : Range(s) = S}

EmittedGuids == {result[i].guid : i \in 1..Len(result)}

\* not yet emitted, every in-filter dependency emitted
ReadyGuids ==
    {g \in MatchingGuids(project_type) \ EmittedGuids :
         DependsOn(g, MatchingGuids(project_type)) \subseteq EmittedGuids}

C5_SmallestNameFirst ==
    [][KahnStep =>
          /\ emitted' \in ReadyGuids
          /\ \A g \in ReadyGuids :
                 ~NameLess(NameOfGuid(g), NameOfGuid(emitted'))
          /\ \A q \in Orderings(ReadyGuids) :
                 Head(SortByName(q, projects)) = emitted']_vars

(***************************************************************************)
(* C6.  When the filtered graph contains a cycle, get_build_order returns  *)
(* the projects Kahn's algorithm could order, as a valid topological       *)
(* prefix, followed by all remaining projects in their declaration order   *)
(* in the solution file.                                                   *)
(***************************************************************************)
C6_CyclicRemainderInDeclarationOrder ==
    (BuildOrderReturned /\ ~Acyclic(MatchingGuids(ret.arg))) =>
        LET M == MatchingGuids(ret.arg)
            ordered == Orderable(M, {})
            k == Cardinality(ordered)
        IN  /\ Len(ReturnedGuids) = Cardinality(M)
            /\ {ReturnedGuids[i] : i \in 1..k} = ordered
            /\ \A i \in 1..k :
                   DependsOn(ReturnedGuids[i], M)
                       \subseteq {ReturnedGuids[j] : j \in 1..(i - 1)}
            /\ SubSeq(ReturnedGuids, k + 1, Len(ReturnedGuids))
                   = FilterIn(DeclarationOrder, M \ ordered)

\* one project ordered, then two on a cycle whose declaration order is not
\* their name order
C6_Witness ==
    /\ BuildOrderReturned
    /\ ~Acyclic(MatchingGuids(ret.arg))
    /\ Orderable(MatchingGuids(ret.arg), {}) # {}
    /\ \E i, j \in 1..Len(ReturnedGuids) :
           /\ i < j
           /\ {ReturnedGuids[i], ReturnedGuids[j]}
                  \cap Orderable(MatchingGuids(ret.arg), {}) = {}
           /\ NameLess(ReturnedNames[j], ReturnedNames[i])

(***************************************************************************)
(* C7.  Whenever get_build_order falls back to the degraded cyclic         *)
(* ordering (the Kahn result is shorter than the filtered project set), a  *)
(* cycle warning is raised or surfaced to the caller or operator.          *)
(***************************************************************************)
C7_CycleWarning ==
    (BuildOrderReturned /\ ~Acyclic(MatchingGuids(ret.arg))) =>
        warnings # <<>>

(***************************************************************************)
(* Strings.  Where the code looks inside a string (substring tests,        *)
(* replace, split, regular expressions, ordering) the model holds it as    *)
(* the sequence of its characters; Alphabet lists the characters in code   *)
(* point order, which is the order of str.__lt__ and of sorted().          *)
(***************************************************************************)
Alphabet ==
    <<" ", "\"", "$", "%", "'", "(", ")", "+", "-", ".", "/",
      "0", "1", "2", "3", "4", "5", "6", "7", "8", "9", ":", ";", "=",
      "A", "B", "C", "D", "E", "F", "G", "H", "I", "J", "K", "L", "M",
      "N", "O", "P", "Q", "R", "S", "T", "U", "V", "W", "X", "Y", "Z",
      "\\", "_",
      "a", "b", "c", "d", "e", "f", "g", "h", "i", "j", "k", "l", "m",
      "n", "o", "p", "q", "r", "s", "t", "u", "v", "w", "x", "y", "z",
      "|">>

UpperCase == <<"A", "B", "C", "D", "E", "F", "G", "H", "I", "J", "K", "L", "M", "N", "O", "P", "Q", "R", "S", "T", "U", "V", "W", "X", "Y", "Z">>
LowerCase == <<"a", "b", "c", "d", "e", "f", "g", "h", "i", "j", "k", "l", "m", "n", "o", "p", "q", "r", "s", "t", "u", "v", "w", "x", "y", "z">>
Digits == <<"0", "1", "2", "3", "4", "5", "6", "7", "8", "9">>

\* ord(c), as a rank in the alphabet (f @@ <<>> is f, held enumerated)
CharCode == [c \in Range(Alphabet) |-> IndexOf(c, Alphabet)] @@ <<>>

\* c.lower()
LowerChar ==
    [c \in Range(Alphabet) |->
        IF c \in Range(UpperCase) THEN LowerCase[IndexOf(c, UpperCase)] ELSE c]
    @@ <<>>

\* str.lower()
Lower(s) == [i \in 1..Len(s) |-> LowerChar[s[i]]]

\* a < b on str
RECURSIVE StrLess(_, _)
StrLess(a, b) ==
    IF b = <<>> THEN FALSE
    ELSE IF a = <<>> THEN TRUE
    ELSE IF Head(a) = Head(b) THEN StrLess(Tail(a), Tail(b))
    ELSE CharCode[Head(a)] < CharCode[Head(b)]

\* s[i:i+len(pat)] == pat
MatchAt(pat, s, i) ==
    /\ i + Len(pat) - 1 <= Len(s)
    /\ SubSeq(s, i, i + Len(pat) - 1) = pat

\* pat in s
IsSubstr(pat, s) == \E i \in 1..(Len(s) + 1) : MatchAt(pat, s, i)

EndsWith(s, pat) ==
    Len(pat) <= Len(s) /\ MatchAt(pat, s, Len(s) - Len(pat) + 1)

\* s.replace(pat, rep), pat not empty: leftmost occurrences, left to right
RECURSIVE Replace(_, _, _)
Replace(s, pat, rep) ==
    IF s = <<>> THEN <<>>
    ELSE IF MatchAt(pat, s, 1)
    THEN rep \o Replace(SubSeq(s, Len(pat) + 1, Len(s)), pat, rep)
    ELSE <<Head(s)>> \o Replace(Tail(s), pat, rep)

\* s.split(sep) for a one-character sep
RECURSIVE Split(_, _)
Split(s, sep) ==
    IF \A i \in 1..Len(s) : s[i] # sep THEN <<s>>
    ELSE LET k == CHOOSE i \in 1..Len(s) :
                      s[i] = sep /\ \A j \in 1..(i - 1) : s[j] # sep
         IN  <<SubSeq(s, 1, k - 1)>> \o Split(SubSeq(s, k + 1, Len(s)), sep)

\* s.strip(): the model's only whitespace is the space
RECURSIVE LStrip(_)
LStrip(s) == IF s # <<>> /\ Head(s) = " " THEN LStrip(Tail(s)) ELSE s

RECURSIVE RStrip(_)
RStrip(s) ==
    IF s # <<>> /\ s[Len(s)] = " " THEN RStrip(SubSeq(s, 1, Len(s) - 1))
    ELSE s

Strip(s) == RStrip(LStrip(s))

\* sorted(): ascending, by insertion
RECURSIVE InsertStr(_, _)
InsertStr(x, sorted) ==
    IF sorted = <<>> THEN <<x>>
    ELSE IF StrLess(x, Head(sorted)) THEN <<x>> \o sorted
    ELSE <<Head(sorted)>> \o InsertStr(x, Tail(sorted))

\* the list handed back as the set was walked, without sorted()
Unsorted(s) == s

RECURSIVE Sorted(_)
Sorted(s) ==
    IF s = <<>> THEN <<>>
    ELSE InsertStr(s[Len(s)], Sorted(SubSeq(s, 1, Len(s) - 1)))

(***************************************************************************)
(* list(a_set): the order in which CPython walks a set of str depends on   *)
(* the hash seed of the process.  The model lets the walk run in either    *)
(* direction of the code point order.                                      *)
(***************************************************************************)
HashSeeds == {"ascending", "descending"}

RECURSIVE Ascending(_)
Ascending(S) ==
    IF S = {} THEN <<>>
    ELSE LET x == CHOOSE y \in S : TRUE
         IN  InsertStr(x, Ascending(S \ {x}))

Reverse(s) == [i \in 1..Len(s) |-> s[Len(s) + 1 - i]]

ListOfSet(S, seed) ==
    IF seed = "ascending" THEN Ascending(S) ELSE Reverse(Ascending(S))

(***************************************************************************)
(* The project file, as VcxprojParser holds it after _strip_namespace:     *)
(* the groups under the root in document order.  A group                   *)
(*                                                                         *)
(*   <tag Condition="Condition">                                           *)
(*     <container> <child.tag>child.text</child.tag> ... </container>      *)
(*   </tag>                                                                *)
(*                                                                         *)
(* is an ItemDefinitionGroup or a PropertyGroup; its setting elements sit  *)
(* in a ClCompile or Link element (container names it), or directly under  *)
(* the group (container = "").  Condition = <<>> is the absent attribute;  *)
(* the containers carry no Condition attribute.                            *)
(***************************************************************************)
Release == <<"R", "e", "l", "e", "a", "s", "e">>
Debug == <<"D", "e", "b", "u", "g">>
x64 == <<"x", "6", "4">>
Win32 == <<"W", "i", "n", "3", "2">>
x86 == <<"x", "8", "6">>
ARM == <<"A", "R", "M">>

\* '$(Configuration)|$(Platform)'=='config|platform'
ConditionOn(config, platform) ==
    <<"'", "$", "(", "C", "o", "n", "f", "i", "g", "u", "r", "a", "t", "i", "o", "n", ")", "|", "$", "(", "P", "l", "a", "t", "f", "o", "r", "m", ")", "'", "=", "=", "'">> \o config \o <<"|">> \o platform \o <<"'">>

Conditions == { <<>>, ConditionOn(Release, x64), ConditionOn(Debug, x64) }

\* the (configuration, platform) pairs a caller asks parse_all for
ConfigurationKeys ==
    { <<Release, x64>>, <<Release, Win32>>, <<Debug, x64>>, <<Debug, ARM>> }

\* the texts the files of the model give each setting
SettingTexts ==
    [ PreprocessorDefinitions |->
          { <<"Z", "E", "D", ";", "F", "O", "O", "=", "1", ";", "%", "(", "P", "r", "e", "p", "r", "o", "c", "e", "s", "s", "o", "r", "D", "e", "f", "i", "n", "i", "t", "i", "o", "n", "s", ")">>, <<"B", "A", "R", ";", " ", "Z", "E", "D">> },
      AdditionalIncludeDirectories |->
          { <<"s", "r", "c", "\\", "i", "n", "c", ";", "i", "n", "c", "l", "u", "d", "e", ";", "%", "(", "A", "d", "d", "i", "t", "i", "o", "n", "a", "l", "I", "n", "c", "l", "u", "d", "e", "D", "i", "r", "e", "c", "t", "o", "r", "i", "e", "s", ")">>, <<"i", "n", "c", "l", "u", "d", "e", ";", ".", ".", "\\", "c", "o", "m", "m", "o", "n">> },
      AdditionalDependencies |->
          { <<"w", "s", "2", "_", "3", "2", ".", "l", "i", "b", ";", "K", "e", "r", "n", "e", "l", "3", "2", ".", "L", "I", "B", ";", "%", "(", "A", "d", "d", "i", "t", "i", "o", "n", "a", "l", "D", "e", "p", "e", "n", "d", "e", "n", "c", "i", "e", "s", ")">>, <<"d", "b", "g", "h", "e", "l", "p", ".", "l", "i", "b">> },
      AdditionalOptions |->
          { <<"/", "W", "4", " ", "/", "O", "2", " ", "%", "(", "A", "d", "d", "i", "t", "i", "o", "n", "a", "l", "O", "p", "t", "i", "o", "n", "s", ")">>, <<"/", "D", "F", "O", "O", " ", "\"", "/", "I", " ", "m", "y", " ", "i", "n", "c", "\"">> },
      RuntimeLibrary |-> { <<"M", "u", "l", "t", "i", "T", "h", "r", "e", "a", "d", "e", "d">>, <<"M", "u", "l", "t", "i", "T", "h", "r", "e", "a", "d", "e", "d", "D", "e", "b", "u", "g">> },
      SubSystem |-> { <<"W", "i", "n", "d", "o", "w", "s">>, <<"N", "a", "t", "i", "v", "e">> },
      LanguageStandard |-> { <<"s", "t", "d", "c", "p", "p", "1", "7">>, <<"s", "t", "d", "c", "p", "p", "l", "a", "t", "e", "s", "t">> },
      WarningLevel |-> { <<"L", "e", "v", "e", "l", "4">>, <<"T", "u", "r", "n", "O", "f", "f", "A", "l", "l", "W", "a", "r", "n", "i", "n", "g", "s">> },
      Optimization |-> { <<"D", "i", "s", "a", "b", "l", "e", "d">>, <<"M", "a", "x", "S", "p", "e", "e", "d">> } ]

SettingTags == DOMAIN SettingTexts

\* the element Visual Studio nests the setting in, inside an
\* ItemDefinitionGroup
ContainerOf(tag) ==
    IF tag \in {"AdditionalDependencies", "SubSystem"} THEN "Link"
    ELSE "ClCompile"

\* the groups that hold one setting element of the given tag
GroupsFor(tag) ==
    { [tag |-> g[1], container |-> g[2], Condition |-> c,
       children |-> <<[tag |-> tag, text |-> t]>>]
      : g \in { <<"ItemDefinitionGroup", ContainerOf(tag)>>,
                <<"PropertyGroup", "">> },
        c \in Conditions, t \in SettingTexts[tag] }

\* most groups in a project file
MaxGroups == 2

VcxFiles ==
    UNION { UNION { SeqsOfLen(GroupsFor(tag), n) : n \in 1..MaxGroups }
            : tag \in SettingTags }

\* the path the parser was constructed with: solution/app/app.vcxproj
ProjectDir == <<"s", "o", "l", "u", "t", "i", "o", "n", "/", "a", "p", "p">>
ProjectDirParent == <<"s", "o", "l", "u", "t", "i", "o", "n">>
PathStem == <<"a", "p", "p">>

(***************************************************************************)
(* VcxprojParser._get_condition_match                                      *)
(***************************************************************************)
GetConditionMatch(condition, config, platform) ==
    IF condition = <<>> THEN TRUE
    ELSE LET condition_lower == Lower(condition)
             target == <<"'">> \o Lower(config) \o <<"|">> \o Lower(platform) \o <<"'">>
         IN  IsSubstr(target, condition_lower)
                 \/ IsSubstr(Lower(config), condition_lower)

\* _get_condition_match over the conditions and keys of the model, kept as
\* an explicit function (f @@ <<>> is f, enumerated) so that it is
\* evaluated once
ConditionMatchTable ==
    [a \in Conditions \X {Release, Debug} \X {x64, x86, ARM} |->
        GetConditionMatch(a[1], a[2], a[3])] @@ <<>>

ConditionMatches(condition, config, platform) ==
    IF <<condition, config, platform>> \in DOMAIN ConditionMatchTable
    THEN ConditionMatchTable[<<condition, config, platform>>]
    ELSE GetConditionMatch(condition, config, platform)

(***************************************************************************)
(* VcxprojParser._find_elements_for_config.  An element is named by        *)
(* <<g, c>>: child c of group g.  The result is the list of elements in    *)
(* the order the three loops append them.                                  *)
(***************************************************************************)
\* group.findall('.//tag'): the children of group g carrying the tag
RECURSIVE ChildrenWithTag(_, _, _, _)
ChildrenWithTag(groups, g, tag, c) ==
    IF c > Len(groups[g].children) THEN <<>>
    ELSE (IF groups[g].children[c].tag = tag THEN <<<<g, c>>>> ELSE <<>>)
         \o ChildrenWithTag(groups, g, tag, c + 1)

\* one of the first two loops: the groups named groupTag whose condition
\* matches
RECURSIVE MatchingGroupElements(_, _, _, _, _, _)
MatchingGroupElements(groups, groupTag, tag, config, platform, g) ==
    IF g > Len(groups) THEN <<>>
    ELSE (IF /\ groups[g].tag = groupTag
             /\ ConditionMatches(groups[g].Condition, config, platform)
          THEN ChildrenWithTag(groups, g, tag, 1) ELSE <<>>)
         \o MatchingGroupElements(groups, groupTag, tag, config, platform,
                                  g + 1)

\* self.root.findall('.//tag'): every element with the tag, document order
RECURSIVE AllWithTag(_, _, _)
AllWithTag(groups, tag, g) ==
    IF g > Len(groups) THEN <<>>
    ELSE ChildrenWithTag(groups, g, tag, 1) \o AllWithTag(groups, tag, g + 1)

\* VcxprojParser._get_parent(elem).get('Condition', ''): the parent is the
\* container when there is one, and the group otherwise
ParentCondition(groups, e) ==
    IF groups[e[1]].container # "" THEN <<>> ELSE groups[e[1]].Condition

\* the third loop: append what has an unconditioned parent and is not there
RECURSIVE AppendGlobal(_, _, _)
AppendGlobal(groups, elems, results) ==
    IF elems = <<>> THEN results
    ELSE AppendGlobal(groups, Tail(elems),
             IF /\ ParentCondition(groups, Head(elems)) = <<>>
                /\ Head(elems) \notin Range(results)
             THEN Append(results, Head(elems)) ELSE results)

FindElementsForConfig(groups, tag, config, platform) ==
    AppendGlobal(groups, AllWithTag(groups, tag, 1),
        MatchingGroupElements(groups, "ItemDefinitionGroup", tag, config,
                              platform, 1)
        \o MatchingGroupElements(groups, "PropertyGroup", tag, config,
                                 platform, 1))

\* elem.text of each element found, in order
ElementTexts(groups, elems) ==
    [i \in 1..Len(elems) |-> groups[elems[i][1]].children[elems[i][2]].text]

(***************************************************************************)
(* VcxprojParser.get_project_name: no ProjectName and no RootNamespace     *)
(* element in the model's files, so the stem of the path.                  *)
(***************************************************************************)
GetProjectName(groups) ==
    LET names == AllWithTag(groups, "ProjectName", 1)
                     \o AllWithTag(groups, "RootNamespace", 1)
        texts == ElementTexts(groups, names)
    IN  IF \E i \in 1..Len(texts) : texts[i] # <<>>
        THEN texts[CHOOSE i \in 1..Len(texts) :
                       texts[i] # <<>> /\ \A j \in 1..(i - 1) : texts[j] = <<>>]
        ELSE PathStem

(***************************************************************************)
(* VcxprojParser._expand_macros                                            *)
(***************************************************************************)
\* the macros dict, in insertion order
Macros(project_name) ==
    << <<<<"$", "(", "P", "r", "o", "j", "e", "c", "t", "D", "i", "r", ")">>, ProjectDir \o <<"/">>>>,
       <<<<"$", "(", "S", "o", "l", "u", "t", "i", "o", "n", "D", "i", "r", ")">>, ProjectDirParent \o <<"/">>>>,
       <<<<"$", "(", "C", "o", "n", "f", "i", "g", "u", "r", "a", "t", "i", "o", "n", ")">>, <<"R", "e", "l", "e", "a", "s", "e">>>>,
       <<<<"$", "(", "P", "l", "a", "t", "f", "o", "r", "m", ")">>, <<"x", "6", "4">>>>,
       <<<<"$", "(", "I", "n", "t", "D", "i", "r", ")">>, <<"b", "u", "i", "l", "d", "/">>>>,
       <<<<"$", "(", "O", "u", "t", "D", "i", "r", ")">>, <<"b", "u", "i", "l", "d", "/">>>>,
       <<<<"$", "(", "T", "a", "r", "g", "e", "t", "N", "a", "m", "e", ")">>, project_name>>,
       <<<<"$", "(", "P", "r", "o", "j", "e", "c", "t", "N", "a", "m", "e", ")">>, project_name>> >>

RECURSIVE ReplaceMacros(_, _)
ReplaceMacros(s, macros) ==
    IF macros = <<>> THEN s
    ELSE ReplaceMacros(Replace(s, Head(macros)[1], Head(macros)[2]),
                       Tail(macros))

\* re.sub(r'\$\([^)]+\)', '', s)
RECURSIVE RemovePlaceholders(_)
RemovePlaceholders(s) ==
    IF s = <<>> THEN <<>>
    ELSE IF /\ MatchAt(<<"$", "(">>, s, 1)
            /\ \E j \in 4..Len(s) : s[j] = ")"
            /\ s[3] # ")"
    THEN LET j == CHOOSE k \in 4..Len(s) :
                      s[k] = ")" /\ \A l \in 4..(k - 1) : s[l] # ")"
         IN  RemovePlaceholders(SubSeq(s, j + 1, Len(s)))
    ELSE <<Head(s)>> \o RemovePlaceholders(Tail(s))

\* project_name is what self.get_project_name() returns
ExpandMacros(value, project_name) ==
    IF value = <<>> THEN value
    ELSE RemovePlaceholders(ReplaceMacros(value, Macros(project_name)))

(***************************************************************************)
(* The list-valued getters.  Each walks the texts of the elements found,   *)
(* expands macros, splits, strips and drops the empty item and the         *)
(* %(inherit) placeholder.                                                 *)
(***************************************************************************)
\* the items one text contributes, in order
RECURSIVE KeepItems(_, _)
KeepItems(parts, inherit) ==
    IF parts = <<>> THEN <<>>
    ELSE LET item == Strip(Head(parts))
         IN  (IF item # <<>> /\ item # inherit THEN <<item>> ELSE <<>>)
             \o KeepItems(Tail(parts), inherit)

\* the literal that stands for "inherit from the parent scope"
InheritOf ==
    [ PreprocessorDefinitions |-> <<"%", "(", "P", "r", "e", "p", "r", "o", "c", "e", "s", "s", "o", "r", "D", "e", "f", "i", "n", "i", "t", "i", "o", "n", "s", ")">>,
      AdditionalIncludeDirectories |-> <<"%", "(", "A", "d", "d", "i", "t", "i", "o", "n", "a", "l", "I", "n", "c", "l", "u", "d", "e", "D", "i", "r", "e", "c", "t", "o", "r", "i", "e", "s", ")">>,
      AdditionalDependencies |-> <<"%", "(", "A", "d", "d", "i", "t", "i", "o", "n", "a", "l", "D", "e", "p", "e", "n", "d", "e", "n", "c", "i", "e", "s", ")">> ]

\* the items of one element text: expand, split on ';', strip, drop
TextItems(text, inherit, project_name) ==
    IF text # <<>>
    THEN KeepItems(Split(ExpandMacros(text, project_name), ";"), inherit)
    ELSE <<>>

\* TextItems over the texts of the model's files, enumerated once
TextItemsTable ==
    [a \in UNION { {<<t, InheritOf[tag]>> : t \in SettingTexts[tag]}
                   : tag \in DOMAIN InheritOf } |->
        TextItems(a[1], a[2], PathStem)] @@ <<>>

RECURSIVE SplitItems(_, _, _)
SplitItems(texts, inherit, project_name) ==
    IF texts = <<>> THEN <<>>
    ELSE (IF project_name = PathStem
             /\ <<Head(texts), inherit>> \in DOMAIN TextItemsTable
          THEN TextItemsTable[<<Head(texts), inherit>>]
          ELSE TextItems(Head(texts), inherit, project_name))
         \o SplitItems(Tail(texts), inherit, project_name)

\* for d in common_defs: add d unless d or '_' + d is there
RECURSIVE AddCommonDefs(_, _)
AddCommonDefs(definitions, common_defs) ==
    IF common_defs = <<>> THEN definitions
    ELSE LET d == Head(common_defs)
         IN  AddCommonDefs(
                 IF d \notin definitions /\ (<<"_">> \o d) \notin definitions
                 THEN definitions \cup {d} ELSE definitions,
                 Tail(common_defs))

CommonDefs(config) ==
    <<<<"W", "I", "N", "3", "2">>, <<"_", "W", "I", "N", "D", "O", "W", "S">>, <<"U", "N", "I", "C", "O", "D", "E">>, <<"_", "U", "N", "I", "C", "O", "D", "E">>>>
    \o (IF config = Debug THEN <<<<"_", "D", "E", "B", "U", "G">>, <<"D", "E", "B", "U", "G">>>> ELSE <<<<"N", "D", "E", "B", "U", "G">>>>)

\* VcxprojParser.get_preprocessor_definitions
GetPreprocessorDefinitions(groups, config, platform, seed) ==
    LET elements == FindElementsForConfig(groups, "PreprocessorDefinitions",
                                          config, platform)
        raw == SplitItems(ElementTexts(groups, elements),
                          InheritOf["PreprocessorDefinitions"],
                          GetProjectName(groups))
        definitions == AddCommonDefs(Range(raw), CommonDefs(config))
    IN  Sorted(ListOfSet(definitions, seed))

\* inc.replace('\\', '/')
ToUnixPath(path) == Replace(path, <<"\\">>, <<"/">>)

\* VcxprojParser.get_include_directories
GetIncludeDirectories(groups, config, platform, seed) ==
    LET elements == FindElementsForConfig(groups,
                        "AdditionalIncludeDirectories", config, platform)
        raw == SplitItems(ElementTexts(groups, elements),
                          InheritOf["AdditionalIncludeDirectories"],
                          GetProjectName(groups))
        includes == {ToUnixPath(raw[i]) : i \in 1..Len(raw)}
    IN  Sorted(ListOfSet(includes, seed))

\* re.sub(r'\.lib$', '', lib, flags=re.IGNORECASE)
StripLibSuffix(lib) ==
    IF EndsWith(Lower(lib), <<".", "l", "i", "b">>) THEN SubSeq(lib, 1, Len(lib) - 4)
    ELSE lib

\* VcxprojParser.get_additional_libraries
GetAdditionalLibraries(groups, config, platform, seed) ==
    LET elements == FindElementsForConfig(groups, "AdditionalDependencies",
                                          config, platform)
        raw == SplitItems(ElementTexts(groups, elements),
                          InheritOf["AdditionalDependencies"],
                          GetProjectName(groups))
        libraries == {StripLibSuffix(raw[i]) : i \in 1..Len(raw)}
    IN  Sorted(ListOfSet(libraries, seed))

\* re.findall(r'[^\s"]+|"[^"]*"', text)
RECURSIVE OptionParts(_)
OptionParts(s) ==
    IF s = <<>> THEN <<>>
    ELSE IF Head(s) = " " THEN OptionParts(Tail(s))
    ELSE IF Head(s) = "\""
    THEN IF \E j \in 2..Len(s) : s[j] = "\""
         THEN LET j == CHOOSE k \in 2..Len(s) :
                           s[k] = "\"" /\ \A l \in 2..(k - 1) : s[l] # "\""
              IN  <<SubSeq(s, 1, j)>> \o OptionParts(SubSeq(s, j + 1, Len(s)))
         ELSE OptionParts(Tail(s))
    ELSE LET stop == {k \in 1..Len(s) : s[k] = " " \/ s[k] = "\""}
             j == IF stop = {} THEN Len(s) + 1
                  ELSE CHOOSE k \in stop : \A l \in stop : k <= l
         IN  <<SubSeq(s, 1, j - 1)>> \o OptionParts(SubSeq(s, j, Len(s)))

\* the options of one element text
TextOptions(text, project_name) ==
    IF text # <<>>
    THEN KeepItems(OptionParts(ExpandMacros(text, project_name)),
                   <<"%", "(", "A", "d", "d", "i", "t", "i", "o", "n", "a", "l", "O", "p", "t", "i", "o", "n", "s", ")">>)
    ELSE <<>>

\* TextOptions over the texts of the model's files, enumerated once
TextOptionsTable ==
    [t \in SettingTexts["AdditionalOptions"] |-> TextOptions(t, PathStem)] @@ <<>>

RECURSIVE SplitOptions(_, _)
SplitOptions(texts, project_name) ==
    IF texts = <<>> THEN <<>>
    ELSE (IF project_name = PathStem /\ Head(texts) \in DOMAIN TextOptionsTable
          THEN TextOptionsTable[Head(texts)]
          ELSE TextOptions(Head(texts), project_name))
         \o SplitOptions(Tail(texts), project_name)

\* VcxprojParser.get_additional_options
GetAdditionalOptions(groups, config, platform) ==
    SplitOptions(
        ElementTexts(groups,
            FindElementsForConfig(groups, "AdditionalOptions", config,
                                  platform)),
        GetProjectName(groups))

(***************************************************************************)
(* The scalar getters: the first element found whose text gives a value,   *)
(* and the default when none does.                                         *)
(***************************************************************************)
\* for elem in elements: if <text gives a value>: return it
\* (values[i] is what the text of element i gives, <<>> when nothing)
FirstValue(values, default) ==
    IF \A i \in 1..Len(values) : values[i] = <<>> THEN default
    ELSE values[CHOOSE i \in 1..Len(values) :
                    values[i] # <<>> /\ \A j \in 1..(i - 1) : values[j] = <<>>]

ScalarTexts(groups, tag, config, platform) ==
    ElementTexts(groups, FindElementsForConfig(groups, tag, config, platform))

TextItself(text) == text

\* VcxprojParser.get_runtime_library
GetRuntimeLibrary(groups, config, platform) ==
    LET texts == ScalarTexts(groups, "RuntimeLibrary", config, platform)
    IN  FirstValue([i \in 1..Len(texts) |-> TextItself(texts[i])],
                   IF config = Release THEN <<"M", "u", "l", "t", "i", "T", "h", "r", "e", "a", "d", "e", "d", "D", "L", "L">>
                   ELSE <<"M", "u", "l", "t", "i", "T", "h", "r", "e", "a", "d", "e", "d", "D", "e", "b", "u", "g", "D", "L", "L">>)

\* VcxprojParser.get_subsystem
GetSubsystem(groups, config, platform) ==
    LET texts == ScalarTexts(groups, "SubSystem", config, platform)
    IN  FirstValue([i \in 1..Len(texts) |-> TextItself(texts[i])],
                   <<"C", "o", "n", "s", "o", "l", "e">>)

\* the if/elif chain of get_cpp_standard; <<>> when no branch returns
CppStandardOf(text) ==
    LET std == Lower(text)
    IN  IF IsSubstr(<<"c", "+", "+", "1", "7">>, std) \/ IsSubstr(<<"s", "t", "d", "c", "p", "p", "1", "7">>, std)
        THEN <<"c", "+", "+", "1", "7">>
        ELSE IF IsSubstr(<<"c", "+", "+", "1", "4">>, std) \/ IsSubstr(<<"s", "t", "d", "c", "p", "p", "1", "4">>, std)
        THEN <<"c", "+", "+", "1", "4">>
        ELSE IF IsSubstr(<<"c", "+", "+", "2", "0">>, std) \/ IsSubstr(<<"s", "t", "d", "c", "p", "p", "2", "0">>, std)
        THEN <<"c", "+", "+", "2", "0">>
        ELSE IF IsSubstr(<<"l", "a", "t", "e", "s", "t">>, std) THEN <<"c", "+", "+", "2", "0">>
        ELSE <<>>

\* VcxprojParser.get_cpp_standard
GetCppStandard(groups, config, platform) ==
    LET texts == ScalarTexts(groups, "LanguageStandard", config, platform)
    IN  FirstValue([i \in 1..Len(texts) |-> CppStandardOf(texts[i])],
                   <<"c", "+", "+", "1", "1">>)

\* re.search(r'(\d+)', text).group(1): the first run of digits, <<>> if none
FirstDigits(text) ==
    IF \A i \in 1..Len(text) : text[i] \notin Range(Digits) THEN <<>>
    ELSE LET a == CHOOSE i \in 1..Len(text) :
                      /\ text[i] \in Range(Digits)
                      /\ \A j \in 1..(i - 1) : text[j] \notin Range(Digits)
             b == CHOOSE i \in a..Len(text) :
                      /\ \A j \in a..i : text[j] \in Range(Digits)
                      /\ (i = Len(text) \/ text[i + 1] \notin Range(Digits))
         IN  SubSeq(text, a, b)

\* int(digits)
RECURSIVE IntOf(_)
IntOf(digits) ==
    IF digits = <<>> THEN 0
    ELSE 10 * IntOf(SubSeq(digits, 1, Len(digits) - 1))
         + (IndexOf(digits[Len(digits)], Digits) - 1)

\* VcxprojParser.get_warning_level
GetWarningLevel(groups, config, platform) ==
    LET texts == ScalarTexts(groups, "WarningLevel", config, platform)
        digits == FirstValue([i \in 1..Len(texts) |-> FirstDigits(texts[i])],
                             <<>>)
    IN  IF digits = <<>> THEN 3 ELSE IntOf(digits)

\* the if/elif chain of get_optimization; <<>> when no branch returns
OptimizationOf(text) ==
    LET opt == Lower(text)
    IN  IF IsSubstr(<<"d", "i", "s", "a", "b", "l", "e", "d">>, opt) THEN <<"-", "O", "0">>
        ELSE IF IsSubstr(<<"f", "u", "l", "l">>, opt) \/ IsSubstr(<<"m", "a", "x", "s", "p", "e", "e", "d">>, opt)
        THEN <<"-", "O", "3">>
        ELSE IF IsSubstr(<<"m", "i", "n", "s", "p", "a", "c", "e">>, opt) THEN <<"-", "O", "s">>
        ELSE IF IsSubstr(<<"m", "a", "x", "s", "p", "e", "e", "d">>, opt) THEN <<"-", "O", "2">>
        ELSE <<>>

\* VcxprojParser.get_optimization
GetOptimization(groups, config, platform) ==
    LET texts == ScalarTexts(groups, "Optimization", config, platform)
    IN  FirstValue([i \in 1..Len(texts) |-> OptimizationOf(texts[i])],
                   IF config = Release THEN <<"-", "O", "2">> ELSE <<"-", "O", "0">>)

(***************************************************************************)
(* VcxprojParser.parse_all.  The fields that do not depend on the key or   *)
(* on the groups (project_dir, configurations, the item lists,             *)
(* character_set) are left out of the record.                              *)
(***************************************************************************)
ParseAllOf(groups, config, platform0, seed) ==
    LET platform == IF platform0 = Win32 THEN x86 ELSE platform0
    IN  [project_name |-> GetProjectName(groups),
         config |-> config,
         platform |-> platform,
         preprocessor_definitions |->
             GetPreprocessorDefinitions(groups, config, platform, seed),
         include_directories |->
             GetIncludeDirectories(groups, config, platform, seed),
         additional_libraries |->
             GetAdditionalLibraries(groups, config, platform, seed),
         additional_options |->
             GetAdditionalOptions(groups, config, platform),
         runtime_library |-> GetRuntimeLibrary(groups, config, platform),
         subsystem |-> GetSubsystem(groups, config, platform),
         cpp_standard |-> GetCppStandard(groups, config, platform),
         warning_level |-> GetWarningLevel(groups, config, platform),
         optimization |-> GetOptimization(groups, config, platform)]

(***************************************************************************)
(* The resolver's caller.                                                  *)
(***************************************************************************)
\* VcxprojParser.__init__.  No SlnParser is constructed in the runs of the
\* resolver.
VcxInit ==
    /\ root \in VcxFiles
    /\ resolved_key = <<>>
    /\ settings = <<>>
    /\ again = FALSE
    /\ content = <<>>
    /\ projects = <<>>
    /\ dependencies = <<>>
    /\ build_configurations = <<>>
    /\ warnings = <<>>
    /\ last_order = <<>>
    /\ pc = "idle"
    /\ ret = NoReturn
    /\ project_type = None
    /\ relevant_projects = <<>>
    /\ in_degree = <<>>
    /\ graph = <<>>
    /\ queue = <<>>
    /\ result = <<>>
    /\ emitted = 0
    /\ project_data = <<>>
    /\ library_mapper = <<>>
    /\ generated = <<>>
    /\ disk = <<>>
    /\ call = <<>>
    /\ returned = <<>>

\* a call of parse_all(config, platform); the hash seed is that of the
\* process the call runs in
ParseAll(key) ==
    /\ \E seed \in HashSeeds :
           settings' = ParseAllOf(root, key[1], key[2], seed)
    /\ resolved_key' = key
    /\ again' = (resolved_key = key)
    /\ UNCHANGED <<root, slnVars, genVars, callVars>>

VcxNext == \E key \in ConfigurationKeys : ParseAll(key)

SpecVcx == VcxInit /\ [][VcxNext]_vars

(***************************************************************************)
(* library_mapper.py: the table of Windows library names and their MinGW   *)
(* names, in the order of the dict; None marks a library MinGW lacks.      *)
(***************************************************************************)
\* None where a str may stand: a value that equals no str
NoneStr == <<None>>

LIBRARY_MAP ==
    <<
      <<<<"k", "e", "r", "n", "e", "l", "3", "2">>, <<"k", "e", "r", "n", "e", "l", "3", "2">>>>,
      <<<<"k", "e", "r", "n", "e", "l", "3", "2", ".", "l", "i", "b">>, <<"k", "e", "r", "n", "e", "l", "3", "2">>>>,
      <<<<"u", "s", "e", "r", "3", "2">>, <<"u", "s", "e", "r", "3", "2">>>>,
      <<<<"u", "s", "e", "r", "3", "2", ".", "l", "i", "b">>, <<"u", "s", "e", "r", "3", "2">>>>,
      <<<<"g", "d", "i", "3", "2">>, <<"g", "d", "i", "3", "2">>>>,
      <<<<"g", "d", "i", "3", "2", ".", "l", "i", "b">>, <<"g", "d", "i", "3", "2">>>>,
      <<<<"n", "t", "d", "l", "l">>, <<"n", "t", "d", "l", "l">>>>,
      <<<<"n", "t", "d", "l", "l", ".", "l", "i", "b">>, <<"n", "t", "d", "l", "l">>>>,
      <<<<"w", "s", "2", "_", "3", "2">>, <<"w", "s", "2", "_", "3", "2">>>>,
      <<<<"w", "s", "2", "_", "3", "2", ".", "l", "i", "b">>, <<"w", "s", "2", "_", "3", "2">>>>,
      <<<<"w", "s", "o", "c", "k", "3", "2">>, <<"w", "s", "o", "c", "k", "3", "2">>>>,
      <<<<"w", "s", "o", "c", "k", "3", "2", ".", "l", "i", "b">>, <<"w", "s", "o", "c", "k", "3", "2">>>>,
      <<<<"i", "p", "h", "l", "p", "a", "p", "i">>, <<"i", "p", "h", "l", "p", "a", "p", "i">>>>,
      <<<<"i", "p", "h", "l", "p", "a", "p", "i", ".", "l", "i", "b">>, <<"i", "p", "h", "l", "p", "a", "p", "i">>>>,
      <<<<"w", "i", "n", "h", "t", "t", "p">>, <<"w", "i", "n", "h", "t", "t", "p">>>>,
      <<<<"w", "i", "n", "h", "t", "t", "p", ".", "l", "i", "b">>, <<"w", "i", "n", "h", "t", "t", "p">>>>,
      <<<<"w", "i", "n", "i", "n", "e", "t">>, <<"w", "i", "n", "i", "n", "e", "t">>>>,
      <<<<"w", "i", "n", "i", "n", "e", "t", ".", "l", "i", "b">>, <<"w", "i", "n", "i", "n", "e", "t">>>>,
      <<<<"m", "s", "w", "s", "o", "c", "k">>, <<"m", "s", "w", "s", "o", "c", "k">>>>,
      <<<<"m", "s", "w", "s", "o", "c", "k", ".", "l", "i", "b">>, <<"m", "s", "w", "s", "o", "c", "k">>>>,
      <<<<"d", "n", "s", "a", "p", "i">>, <<"d", "n", "s", "a", "p", "i">>>>,
      <<<<"d", "n", "s", "a", "p", "i", ".", "l", "i", "b">>, <<"d", "n", "s", "a", "p", "i">>>>,
      <<<<"f", "w", "p", "u", "c", "l", "n", "t">>, <<"f", "w", "p", "u", "c", "l", "n", "t">>>>,
      <<<<"f", "w", "p", "u", "c", "l", "n", "t", ".", "l", "i", "b">>, <<"f", "w", "p", "u", "c", "l", "n", "t">>>>,
      <<<<"r", "a", "s", "a", "p", "i", "3", "2">>, <<"r", "a", "s", "a", "p", "i", "3", "2">>>>,
      <<<<"r", "a", "s", "a", "p", "i", "3", "2", ".", "l", "i", "b">>, <<"r", "a", "s", "a", "p", "i", "3", "2">>>>,
      <<<<"s", "e", "c", "u", "r", "3", "2">>, <<"s", "e", "c", "u", "r", "3", "2">>>>,
      <<<<"s", "e", "c", "u", "r", "3", "2", ".", "l", "i", "b">>, <<"s", "e", "c", "u", "r", "3", "2">>>>,
      <<<<"c", "r", "y", "p", "t", "3", "2">>, <<"c", "r", "y", "p", "t", "3", "2">>>>,
      <<<<"c", "r", "y", "p", "t", "3", "2", ".", "l", "i", "b">>, <<"c", "r", "y", "p", "t", "3", "2">>>>,
      <<<<"b", "c", "r", "y", "p", "t">>, <<"b", "c", "r", "y", "p", "t">>>>,
      <<<<"b", "c", "r", "y", "p", "t", ".", "l", "i", "b">>, <<"b", "c", "r", "y", "p", "t">>>>,
      <<<<"n", "c", "r", "y", "p", "t">>, <<"n", "c", "r", "y", "p", "t">>>>,
      <<<<"n", "c", "r", "y", "p", "t", ".", "l", "i", "b">>, <<"n", "c", "r", "y", "p", "t">>>>,
      <<<<"a", "d", "v", "a", "p", "i", "3", "2">>, <<"a", "d", "v", "a", "p", "i", "3", "2">>>>,
      <<<<"a", "d", "v", "a", "p", "i", "3", "2", ".", "l", "i", "b">>, <<"a", "d", "v", "a", "p", "i", "3", "2">>>>,
      <<<<"w", "i", "n", "t", "r", "u", "s", "t">>, <<"w", "i", "n", "t", "r", "u", "s", "t">>>>,
      <<<<"w", "i", "n", "t", "r", "u", "s", "t", ".", "l", "i", "b">>, <<"w", "i", "n", "t", "r", "u", "s", "t">>>>,
      <<<<"c", "r", "y", "p", "t", "u", "i">>, <<"c", "r", "y", "p", "t", "u", "i">>>>,
      <<<<"c", "r", "y", "p", "t", "u", "i", ".", "l", "i", "b">>, <<"c", "r", "y", "p", "t", "u", "i">>>>,
      <<<<"c", "r", "y", "p", "t", "n", "e", "t">>, <<"c", "r", "y", "p", "t", "n", "e", "t">>>>,
      <<<<"c", "r", "y", "p", "t", "n", "e", "t", ".", "l", "i", "b">>, <<"c", "r", "y", "p", "t", "n", "e", "t">>>>,
      <<<<"s", "c", "h", "a", "n", "n", "e", "l">>, <<"s", "c", "h", "a", "n", "n", "e", "l">>>>,
      <<<<"s", "c", "h", "a", "n", "n", "e", "l", ".", "l", "i", "b">>, <<"s", "c", "h", "a", "n", "n", "e", "l">>>>,
      <<<<"s", "s", "p", "i", "c", "l", "i">>, <<"s", "s", "p", "i", "c", "l", "i">>>>,
      <<<<"s", "s", "p", "i", "c", "l", "i", ".", "l", "i", "b">>, <<"s", "s", "p", "i", "c", "l", "i">>>>,
      <<<<"s", "h", "e", "l", "l", "3", "2">>, <<"s", "h", "e", "l", "l", "3", "2">>>>,
      <<<<"s", "h", "e", "l", "l", "3", "2", ".", "l", "i", "b">>, <<"s", "h", "e", "l", "l", "3", "2">>>>,
      <<<<"s", "h", "l", "w", "a", "p", "i">>, <<"s", "h", "l", "w", "a", "p", "i">>>>,
      <<<<"s", "h", "l", "w", "a", "p", "i", ".", "l", "i", "b">>, <<"s", "h", "l", "w", "a", "p", "i">>>>,
      <<<<"c", "o", "m", "c", "t", "l", "3", "2">>, <<"c", "o", "m", "c", "t", "l", "3", "2">>>>,
      <<<<"c", "o", "m", "c", "t", "l", "3", "2", ".", "l", "i", "b">>, <<"c", "o", "m", "c", "t", "l", "3", "2">>>>,
      <<<<"c", "o", "m", "d", "l", "g", "3", "2">>, <<"c", "o", "m", "d", "l", "g", "3", "2">>>>,
      <<<<"c", "o", "m", "d", "l", "g", "3", "2", ".", "l", "i", "b">>, <<"c", "o", "m", "d", "l", "g", "3", "2">>>>,
      <<<<"u", "x", "t", "h", "e", "m", "e">>, <<"u", "x", "t", "h", "e", "m", "e">>>>,
      <<<<"u", "x", "t", "h", "e", "m", "e", ".", "l", "i", "b">>, <<"u", "x", "t", "h", "e", "m", "e">>>>,
      <<<<"d", "w", "m", "a", "p", "i">>, <<"d", "w", "m", "a", "p", "i">>>>,
      <<<<"d", "w", "m", "a", "p", "i", ".", "l", "i", "b">>, <<"d", "w", "m", "a", "p", "i">>>>,
      <<<<"o", "l", "e", "3", "2">>, <<"o", "l", "e", "3", "2">>>>,
      <<<<"o", "l", "e", "3", "2", ".", "l", "i", "b">>, <<"o", "l", "e", "3", "2">>>>,
      <<<<"o", "l", "e", "a", "u", "t", "3", "2">>, <<"o", "l", "e", "a", "u", "t", "3", "2">>>>,
      <<<<"o", "l", "e", "a", "u", "t", "3", "2", ".", "l", "i", "b">>, <<"o", "l", "e", "a", "u", "t", "3", "2">>>>,
      <<<<"u", "u", "i", "d">>, <<"u", "u", "i", "d">>>>,
      <<<<"u", "u", "i", "d", ".", "l", "i", "b">>, <<"u", "u", "i", "d">>>>,
      <<<<"c", "o", "m", "b", "a", "s", "e">>, <<"c", "o", "m", "b", "a", "s", "e">>>>,
      <<<<"c", "o", "m", "b", "a", "s", "e", ".", "l", "i", "b">>, <<"c", "o", "m", "b", "a", "s", "e">>>>,
      <<<<"p", "r", "o", "p", "s", "y", "s">>, <<"p", "r", "o", "p", "s", "y", "s">>>>,
      <<<<"p", "r", "o", "p", "s", "y", "s", ".", "l", "i", "b">>, <<"p", "r", "o", "p", "s", "y", "s">>>>,
      <<<<"r", "p", "c", "r", "t", "4">>, <<"r", "p", "c", "r", "t", "4">>>>,
      <<<<"r", "p", "c", "r", "t", "4", ".", "l", "i", "b">>, <<"r", "p", "c", "r", "t", "4">>>>,
      <<<<"r", "p", "c", "n", "s", "4">>, <<"r", "p", "c", "n", "s", "4">>>>,
      <<<<"r", "p", "c", "n", "s", "4", ".", "l", "i", "b">>, <<"r", "p", "c", "n", "s", "4">>>>,
      <<<<"p", "s", "a", "p", "i">>, <<"p", "s", "a", "p", "i">>>>,
      <<<<"p", "s", "a", "p", "i", ".", "l", "i", "b">>, <<"p", "s", "a", "p", "i">>>>,
      <<<<"d", "b", "g", "h", "e", "l", "p">>, <<"d", "b", "g", "h", "e", "l", "p">>>>,
      <<<<"d", "b", "g", "h", "e", "l", "p", ".", "l", "i", "b">>, <<"d", "b", "g", "h", "e", "l", "p">>>>,
      <<<<"v", "e", "r", "s", "i", "o", "n">>, <<"v", "e", "r", "s", "i", "o", "n">>>>,
      <<<<"v", "e", "r", "s", "i", "o", "n", ".", "l", "i", "b">>, <<"v", "e", "r", "s", "i", "o", "n">>>>,
      <<<<"w", "t", "s", "a", "p", "i", "3", "2">>, <<"w", "t", "s", "a", "p", "i", "3", "2">>>>,
      <<<<"w", "t", "s", "a", "p", "i", "3", "2", ".", "l", "i", "b">>, <<"w", "t", "s", "a", "p", "i", "3", "2">>>>,
      <<<<"u", "s", "e", "r", "e", "n", "v">>, <<"u", "s", "e", "r", "e", "n", "v">>>>,
      <<<<"u", "s", "e", "r", "e", "n", "v", ".", "l", "i", "b">>, <<"u", "s", "e", "r", "e", "n", "v">>>>,
      <<<<"p", "o", "w", "r", "p", "r", "o", "f">>, <<"p", "o", "w", "r", "p", "r", "o", "f">>>>,
      <<<<"p", "o", "w", "r", "p", "r", "o", "f", ".", "l", "i", "b">>, <<"p", "o", "w", "r", "p", "r", "o", "f">>>>,
      <<<<"s", "e", "t", "u", "p", "a", "p", "i">>, <<"s", "e", "t", "u", "p", "a", "p", "i">>>>,
      <<<<"s", "e", "t", "u", "p", "a", "p", "i", ".", "l", "i", "b">>, <<"s", "e", "t", "u", "p", "a", "p", "i">>>>,
      <<<<"c", "f", "g", "m", "g", "r", "3", "2">>, <<"c", "f", "g", "m", "g", "r", "3", "2">>>>,
      <<<<"c", "f", "g", "m", "g", "r", "3", "2", ".", "l", "i", "b">>, <<"c", "f", "g", "m", "g", "r", "3", "2">>>>,
      <<<<"n", "e", "w", "d", "e", "v">>, <<"n", "e", "w", "d", "e", "v">>>>,
      <<<<"n", "e", "w", "d", "e", "v", ".", "l", "i", "b">>, <<"n", "e", "w", "d", "e", "v">>>>,
      <<<<"m", "p", "r">>, <<"m", "p", "r">>>>,
      <<<<"m", "p", "r", ".", "l", "i", "b">>, <<"m", "p", "r">>>>,
      <<<<"n", "e", "t", "a", "p", "i", "3", "2">>, <<"n", "e", "t", "a", "p", "i", "3", "2">>>>,
      <<<<"n", "e", "t", "a", "p", "i", "3", "2", ".", "l", "i", "b">>, <<"n", "e", "t", "a", "p", "i", "3", "2">>>>,
      <<<<"w", "i", "n", "s", "p", "o", "o", "l">>, <<"w", "i", "n", "s", "p", "o", "o", "l">>>>,
      <<<<"w", "i", "n", "s", "p", "o", "o", "l", ".", "l", "i", "b">>, <<"w", "i", "n", "s", "p", "o", "o", "l">>>>,
      <<<<"i", "m", "m", "3", "2">>, <<"i", "m", "m", "3", "2">>>>,
      <<<<"i", "m", "m", "3", "2", ".", "l", "i", "b">>, <<"i", "m", "m", "3", "2">>>>,
      <<<<"o", "p", "e", "n", "g", "l", "3", "2">>, <<"o", "p", "e", "n", "g", "l", "3", "2">>>>,
      <<<<"o", "p", "e", "n", "g", "l", "3", "2", ".", "l", "i", "b">>, <<"o", "p", "e", "n", "g", "l", "3", "2">>>>,
      <<<<"g", "l", "u", "3", "2">>, <<"g", "l", "u", "3", "2">>>>,
      <<<<"g", "l", "u", "3", "2", ".", "l", "i", "b">>, <<"g", "l", "u", "3", "2">>>>,
      <<<<"w", "i", "n", "m", "m">>, <<"w", "i", "n", "m", "m">>>>,
      <<<<"w", "i", "n", "m", "m", ".", "l", "i", "b">>, <<"w", "i", "n", "m", "m">>>>,
      <<<<"m", "s", "i", "m", "g", "3", "2">>, <<"m", "s", "i", "m", "g", "3", "2">>>>,
      <<<<"m", "s", "i", "m", "g", "3", "2", ".", "l", "i", "b">>, <<"m", "s", "i", "m", "g", "3", "2">>>>,
      <<<<"o", "d", "b", "c", "3", "2">>, <<"o", "d", "b", "c", "3", "2">>>>,
      <<<<"o", "d", "b", "c", "3", "2", ".", "l", "i", "b">>, <<"o", "d", "b", "c", "3", "2">>>>,
      <<<<"o", "d", "b", "c", "c", "p", "3", "2">>, <<"o", "d", "b", "c", "c", "p", "3", "2">>>>,
      <<<<"o", "d", "b", "c", "c", "p", "3", "2", ".", "l", "i", "b">>, <<"o", "d", "b", "c", "c", "p", "3", "2">>>>,
      <<<<"i", "m", "a", "g", "e", "h", "l", "p">>, <<"i", "m", "a", "g", "e", "h", "l", "p">>>>,
      <<<<"i", "m", "a", "g", "e", "h", "l", "p", ".", "l", "i", "b">>, <<"i", "m", "a", "g", "e", "h", "l", "p">>>>,
      <<<<"d", "b", "g", "e", "n", "g">>, <<"d", "b", "g", "e", "n", "g">>>>,
      <<<<"d", "b", "g", "e", "n", "g", ".", "l", "i", "b">>, <<"d", "b", "g", "e", "n", "g">>>>,
      <<<<"w", "e", "v", "t", "a", "p", "i">>, <<"w", "e", "v", "t", "a", "p", "i">>>>,
      <<<<"w", "e", "v", "t", "a", "p", "i", ".", "l", "i", "b">>, <<"w", "e", "v", "t", "a", "p", "i">>>>,
      <<<<"v", "i", "r", "t", "d", "i", "s", "k">>, <<"v", "i", "r", "t", "d", "i", "s", "k">>>>,
      <<<<"v", "i", "r", "t", "d", "i", "s", "k", ".", "l", "i", "b">>, <<"v", "i", "r", "t", "d", "i", "s", "k">>>>,
      <<<<"w", "b", "e", "m", "u", "u", "i", "d">>, <<"w", "b", "e", "m", "u", "u", "i", "d">>>>,
      <<<<"w", "b", "e", "m", "u", "u", "i", "d", ".", "l", "i", "b">>, <<"w", "b", "e", "m", "u", "u", "i", "d">>>>,
      <<<<"t", "a", "s", "k", "s", "c", "h", "d">>, <<"t", "a", "s", "k", "s", "c", "h", "d">>>>,
      <<<<"t", "a", "s", "k", "s", "c", "h", "d", ".", "l", "i", "b">>, <<"t", "a", "s", "k", "s", "c", "h", "d">>>>,
      <<<<"w", "m", "i">>, <<"w", "m", "i">>>>,
      <<<<"w", "m", "i", ".", "l", "i", "b">>, <<"w", "m", "i">>>>,
      <<<<"a", "c", "t", "i", "v", "e", "d", "s">>, <<"a", "c", "t", "i", "v", "e", "d", "s">>>>,
      <<<<"a", "c", "t", "i", "v", "e", "d", "s", ".", "l", "i", "b">>, <<"a", "c", "t", "i", "v", "e", "d", "s">>>>,
      <<<<"a", "d", "s", "i", "i", "d">>, <<"a", "d", "s", "i", "i", "d">>>>,
      <<<<"a", "d", "s", "i", "i", "d", ".", "l", "i", "b">>, <<"a", "d", "s", "i", "i", "d">>>>,
      <<<<"c", "a", "b", "i", "n", "e", "t">>, <<"c", "a", "b", "i", "n", "e", "t">>>>,
      <<<<"c", "a", "b", "i", "n", "e", "t", ".", "l", "i", "b">>, <<"c", "a", "b", "i", "n", "e", "t">>>>,
      <<<<"s", "v", "c", "c", "t", "l">>, NoneStr>>,
      <<<<"m", "s", "v", "c", "r", "t">>, <<"m", "s", "v", "c", "r", "t">>>>,
      <<<<"m", "s", "v", "c", "r", "t", ".", "l", "i", "b">>, <<"m", "s", "v", "c", "r", "t">>>>,
      <<<<"m", "s", "v", "c", "r", "t", "d">>, <<"m", "s", "v", "c", "r", "t">>>>,
      <<<<"m", "s", "v", "c", "r", "t", "d", ".", "l", "i", "b">>, <<"m", "s", "v", "c", "r", "t">>>>,
      <<<<"u", "c", "r", "t">>, <<"u", "c", "r", "t">>>>,
      <<<<"u", "c", "r", "t", ".", "l", "i", "b">>, <<"u", "c", "r", "t">>>>,
      <<<<"u", "c", "r", "t", "d">>, <<"u", "c", "r", "t">>>>,
      <<<<"u", "c", "r", "t", "d", ".", "l", "i", "b">>, <<"u", "c", "r", "t">>>>,
      <<<<"v", "c", "r", "u", "n", "t", "i", "m", "e">>, NoneStr>>,
      <<<<"v", "c", "r", "u", "n", "t", "i", "m", "e", ".", "l", "i", "b">>, NoneStr>>,
      <<<<"l", "i", "b", "c", "m", "t">>, NoneStr>>,
      <<<<"l", "i", "b", "c", "m", "t", ".", "l", "i", "b">>, NoneStr>>,
      <<<<"l", "i", "b", "c", "m", "t", "d">>, NoneStr>>,
      <<<<"l", "i", "b", "c", "m", "t", "d", ".", "l", "i", "b">>, NoneStr>>,
      <<<<"d", "3", "d", "9">>, <<"d", "3", "d", "9">>>>,
      <<<<"d", "3", "d", "9", ".", "l", "i", "b">>, <<"d", "3", "d", "9">>>>,
      <<<<"d", "3", "d", "1", "1">>, <<"d", "3", "d", "1", "1">>>>,
      <<<<"d", "3", "d", "1", "1", ".", "l", "i", "b">>, <<"d", "3", "d", "1", "1">>>>,
      <<<<"d", "3", "d", "1", "2">>, <<"d", "3", "d", "1", "2">>>>,
      <<<<"d", "3", "d", "1", "2", ".", "l", "i", "b">>, <<"d", "3", "d", "1", "2">>>>,
      <<<<"d", "x", "g", "i">>, <<"d", "x", "g", "i">>>>,
      <<<<"d", "x", "g", "i", ".", "l", "i", "b">>, <<"d", "x", "g", "i">>>>,
      <<<<"d", "x", "g", "u", "i", "d">>, <<"d", "x", "g", "u", "i", "d">>>>,
      <<<<"d", "x", "g", "u", "i", "d", ".", "l", "i", "b">>, <<"d", "x", "g", "u", "i", "d">>>>,
      <<<<"d", "3", "d", "c", "o", "m", "p", "i", "l", "e", "r">>, <<"d", "3", "d", "c", "o", "m", "p", "i", "l", "e", "r", "_", "4", "7">>>>,
      <<<<"d", "3", "d", "c", "o", "m", "p", "i", "l", "e", "r", ".", "l", "i", "b">>, <<"d", "3", "d", "c", "o", "m", "p", "i", "l", "e", "r", "_", "4", "7">>>>,
      <<<<"d", "i", "n", "p", "u", "t", "8">>, <<"d", "i", "n", "p", "u", "t", "8">>>>,
      <<<<"d", "i", "n", "p", "u", "t", "8", ".", "l", "i", "b">>, <<"d", "i", "n", "p", "u", "t", "8">>>>,
      <<<<"d", "s", "o", "u", "n", "d">>, <<"d", "s", "o", "u", "n", "d">>>>,
      <<<<"d", "s", "o", "u", "n", "d", ".", "l", "i", "b">>, <<"d", "s", "o", "u", "n", "d">>>>,
      <<<<"d", "w", "r", "i", "t", "e">>, <<"d", "w", "r", "i", "t", "e">>>>,
      <<<<"d", "w", "r", "i", "t", "e", ".", "l", "i", "b">>, <<"d", "w", "r", "i", "t", "e">>>>,
      <<<<"d", "2", "d", "1">>, <<"d", "2", "d", "1">>>>,
      <<<<"d", "2", "d", "1", ".", "l", "i", "b">>, <<"d", "2", "d", "1">>>>,
      <<<<"s", "y", "n", "c", "h", "r", "o", "n", "i", "z", "a", "t", "i", "o", "n">>, <<"s", "y", "n", "c", "h", "r", "o", "n", "i", "z", "a", "t", "i", "o", "n">>>>,
      <<<<"s", "y", "n", "c", "h", "r", "o", "n", "i", "z", "a", "t", "i", "o", "n", ".", "l", "i", "b">>, <<"s", "y", "n", "c", "h", "r", "o", "n", "i", "z", "a", "t", "i", "o", "n">>>>,
      <<<<"w", "i", "n", "d", "o", "w", "s", "a", "p", "p">>, NoneStr>>,
      <<<<"w", "i", "n", "d", "o", "w", "s", "a", "p", "p", ".", "l", "i", "b">>, NoneStr>>,
      <<<<"r", "u", "n", "t", "i", "m", "e", "o", "b", "j", "e", "c", "t">>, <<"r", "u", "n", "t", "i", "m", "e", "o", "b", "j", "e", "c", "t">>>>,
      <<<<"r", "u", "n", "t", "i", "m", "e", "o", "b", "j", "e", "c", "t", ".", "l", "i", "b">>, <<"r", "u", "n", "t", "i", "m", "e", "o", "b", "j", "e", "c", "t">>>>,
      <<<<"n", "o", "r", "m", "a", "l", "i", "z">>, <<"n", "o", "r", "m", "a", "l", "i", "z">>>>,
      <<<<"n", "o", "r", "m", "a", "l", "i", "z", ".", "l", "i", "b">>, <<"n", "o", "r", "m", "a", "l", "i", "z">>>>,
      <<<<"s", "e", "n", "s", "o", "r", "s", "a", "p", "i">>, <<"s", "e", "n", "s", "o", "r", "s", "a", "p", "i">>>>,
      <<<<"s", "e", "n", "s", "o", "r", "s", "a", "p", "i", ".", "l", "i", "b">>, <<"s", "e", "n", "s", "o", "r", "s", "a", "p", "i">>>>,
      <<<<"p", "o", "r", "t", "a", "b", "l", "e", "d", "e", "v", "i", "c", "e", "g", "u", "i", "d", "s">>, <<"p", "o", "r", "t", "a", "b", "l", "e", "d", "e", "v", "i", "c", "e", "g", "u", "i", "d", "s">>>>,
      <<<<"p", "o", "r", "t", "a", "b", "l", "e", "d", "e", "v", "i", "c", "e", "g", "u", "i", "d", "s", ".", "l", "i", "b">>, <<"p", "o", "r", "t", "a", "b", "l", "e", "d", "e", "v", "i", "c", "e", "g", "u", "i", "d", "s">>>>,
      <<<<"c", "r", "e", "d", "u", "i">>, <<"c", "r", "e", "d", "u", "i">>>>,
      <<<<"c", "r", "e", "d", "u", "i", ".", "l", "i", "b">>, <<"c", "r", "e", "d", "u", "i">>>>,
      <<<<"h", "i", "d">>, <<"h", "i", "d">>>>,
      <<<<"h", "i", "d", ".", "l", "i", "b">>, <<"h", "i", "d">>>>,
      <<<<"b", "t", "h", "p", "r", "o", "p", "s">>, <<"b", "t", "h", "p", "r", "o", "p", "s">>>>,
      <<<<"b", "t", "h", "p", "r", "o", "p", "s", ".", "l", "i", "b">>, <<"b", "t", "h", "p", "r", "o", "p", "s">>>>,
      <<<<"u", "r", "l", "m", "o", "n">>, <<"u", "r", "l", "m", "o", "n">>>>,
      <<<<"u", "r", "l", "m", "o", "n", ".", "l", "i", "b">>, <<"u", "r", "l", "m", "o", "n">>>>,
      <<<<"h", "t", "m", "l", "h", "e", "l", "p">>, <<"h", "t", "m", "l", "h", "e", "l", "p">>>>,
      <<<<"h", "t", "m", "l", "h", "e", "l", "p", ".", "l", "i", "b">>, <<"h", "t", "m", "l", "h", "e", "l", "p">>>>,
      <<<<"w", "i", "n", "d", "o", "w", "s", ".", "d", "a", "t", "a", ".", "p", "d", "f">>, NoneStr>>,
      <<<<"m", "f">>, <<"m", "f">>>>,
      <<<<"m", "f", ".", "l", "i", "b">>, <<"m", "f">>>>,
      <<<<"m", "f", "p", "l", "a", "t">>, <<"m", "f", "p", "l", "a", "t">>>>,
      <<<<"m", "f", "p", "l", "a", "t", ".", "l", "i", "b">>, <<"m", "f", "p", "l", "a", "t">>>>,
      <<<<"m", "f", "u", "u", "i", "d">>, <<"m", "f", "u", "u", "i", "d">>>>,
      <<<<"m", "f", "u", "u", "i", "d", ".", "l", "i", "b">>, <<"m", "f", "u", "u", "i", "d">>>>,
      <<<<"m", "f", "r", "e", "a", "d", "w", "r", "i", "t", "e">>, <<"m", "f", "r", "e", "a", "d", "w", "r", "i", "t", "e">>>>,
      <<<<"m", "f", "r", "e", "a", "d", "w", "r", "i", "t", "e", ".", "l", "i", "b">>, <<"m", "f", "r", "e", "a", "d", "w", "r", "i", "t", "e">>>>,
      <<<<"b", "l", "u", "e", "t", "o", "o", "t", "h", "a", "p", "i", "s">>, <<"b", "l", "u", "e", "t", "o", "o", "t", "h", "a", "p", "i", "s">>>>,
      <<<<"b", "l", "u", "e", "t", "o", "o", "t", "h", "a", "p", "i", "s", ".", "l", "i", "b">>, <<"b", "l", "u", "e", "t", "o", "o", "t", "h", "a", "p", "i", "s">>>>,
      <<<<"b", "i", "t", "s">>, <<"b", "i", "t", "s">>>>,
      <<<<"b", "i", "t", "s", ".", "l", "i", "b">>, <<"b", "i", "t", "s">>>>,
      <<<<"c", "o", "m", "s", "v", "c", "s">>, <<"c", "o", "m", "s", "v", "c", "s">>>>,
      <<<<"c", "o", "m", "s", "v", "c", "s", ".", "l", "i", "b">>, <<"c", "o", "m", "s", "v", "c", "s">>>>,
      <<<<"h", "t", "t", "p", "a", "p", "i">>, <<"h", "t", "t", "p", "a", "p", "i">>>>,
      <<<<"h", "t", "t", "p", "a", "p", "i", ".", "l", "i", "b">>, <<"h", "t", "t", "p", "a", "p", "i">>>>,
      <<<<"a", "u", "t", "h", "z">>, <<"a", "u", "t", "h", "z">>>>,
      <<<<"a", "u", "t", "h", "z", ".", "l", "i", "b">>, <<"a", "u", "t", "h", "z">>>>,
      <<<<"p", "d", "h">>, <<"p", "d", "h">>>>,
      <<<<"p", "d", "h", ".", "l", "i", "b">>, <<"p", "d", "h">>>>,
      <<<<"n", "t", "o", "s", "k", "r", "n", "l">>, NoneStr>>,
      <<<<"a", "t", "l">>, NoneStr>>,
      <<<<"a", "t", "l", ".", "l", "i", "b">>, NoneStr>>,
      <<<<"a", "t", "l", "s", "d">>, NoneStr>>,
      <<<<"m", "f", "c">>, NoneStr>>,
      <<<<"m", "f", "c", ".", "l", "i", "b">>, NoneStr>>,
      <<<<"p", "t", "h", "r", "e", "a", "d">>, <<"p", "t", "h", "r", "e", "a", "d">>>>,
      <<<<"p", "t", "h", "r", "e", "a", "d", "G", "C", "2">>, <<"p", "t", "h", "r", "e", "a", "d">>>>
    >>

\* a dict is held as the sequence of its <<key, value>> items, in insertion
\* order
HasKey(dict, key) == \E i \in 1..Len(dict) : dict[i][1] = key

\* dict[key] = value
SetItem(dict, key, value) ==
    IF HasKey(dict, key)
    THEN [i \in 1..Len(dict) |->
              IF dict[i][1] = key THEN <<key, value>> ELSE dict[i]]
    ELSE Append(dict, <<key, value>>)

\* LibraryMapper.__init__, one turn of the loop: the lower-cased name is
\* always (re)bound; the name without '.lib' is bound only when the lookup
\* does not hold it yet.
BindEntry(lookup, n) ==
    LET win_name == Lower(LIBRARY_MAP[n][1])
        mingw_name == LIBRARY_MAP[n][2]
        base_name == Replace(win_name, <<".", "l", "i", "b">>, <<>>)
        bound == SetItem(lookup, win_name, mingw_name)
    IN  IF HasKey(bound, base_name) THEN bound
        ELSE SetItem(bound, base_name, mingw_name)

\* the loop over entries first..last of the table, in order (the test on
\* half has it evaluated before the turns after mid are taken)
RECURSIVE BindEntries(_, _, _)
BindEntries(lookup, first, last) ==
    IF first > last THEN lookup
    ELSE IF first = last THEN BindEntry(lookup, first)
    ELSE LET mid == (first + last) \div 2
             half == BindEntries(lookup, first, mid)
         IN  IF Len(half) = 0 THEN half
             ELSE BindEntries(half, mid + 1, last)

\* self._lookup of a constructed LibraryMapper
LibraryMapperInit == BindEntries(<<>>, 1, Len(LIBRARY_MAP))

\* path.split(sep)[-1]
LastPart(s, sep) == LET parts == Split(s, sep) IN parts[Len(parts)]

\* self._lookup.get(normalized)
LookupGet(lookup, normalized) ==
    IF HasKey(lookup, normalized)
    THEN lookup[CHOOSE i \in 1..Len(lookup) : lookup[i][1] = normalized][2]
    ELSE NoneStr

\* map_library that looks the name up as it is spelled
MapLibraryCaseSensitive(lookup, lib_name) ==
    LET stripped == Strip(lib_name)
        no_path == IF "/" \in Range(stripped) \/ "\\" \in Range(stripped)
                   THEN LastPart(LastPart(stripped, "/"), "\\")
                   ELSE stripped
    IN  LookupGet(lookup, Replace(no_path, <<".", "l", "i", "b">>, <<>>))

\* LibraryMapper.map_library
MapLibrary(lookup, lib_name) ==
    LET normalized == Strip(Lower(lib_name))
        no_path == IF "/" \in Range(normalized) \/ "\\" \in Range(normalized)
                   THEN LastPart(LastPart(normalized, "/"), "\\")
                   ELSE normalized
    IN  LookupGet(lookup, Replace(no_path, <<".", "l", "i", "b">>, <<>>))

(***************************************************************************)
(* cmake_generator.py.  project_data is the dict handed to CMakeGenerator  *)
(* (a record; a key the dict lacks is a field the record lacks),           *)
(* library_mapper the lookup of the LibraryMapper handed to it (<<>> when  *)
(* the import failed and no mapper is made), generated the sections of the *)
(* text generate() returns (sources, target, include directories,          *)
(* definitions, options, linker options, libraries), disk the files of the *)
(* project directory that _detect_wide_entry_point may read.               *)
(***************************************************************************)
\* CMakeGenerator.MSVC_TO_GCC_FLAGS, in the order of the dict
MSVC_TO_GCC_FLAGS ==
    <<
      <<<<"/", "W", "0">>, <<"-", "w">>>>,
      <<<<"/", "W", "1">>, <<"-", "W", "a", "l", "l">>>>,
      <<<<"/", "W", "2">>, <<"-", "W", "a", "l", "l">>>>,
      <<<<"/", "W", "3">>, <<"-", "W", "a", "l", "l">>>>,
      <<<<"/", "W", "4">>, <<"-", "W", "a", "l", "l", " ", "-", "W", "e", "x", "t", "r", "a">>>>,
      <<<<"/", "W", "X">>, <<"-", "W", "e", "r", "r", "o", "r">>>>,
      <<<<"/", "O", "d">>, <<"-", "O", "0">>>>,
      <<<<"/", "O", "1">>, <<"-", "O", "1">>>>,
      <<<<"/", "O", "2">>, <<"-", "O", "2">>>>,
      <<<<"/", "O", "x">>, <<"-", "O", "3">>>>,
      <<<<"/", "G", "S", "-">>, <<>>>>,
      <<<<"/", "G", "S">>, <<"-", "f", "s", "t", "a", "c", "k", "-", "p", "r", "o", "t", "e", "c", "t", "o", "r">>>>,
      <<<<"/", "G", "y">>, <<"-", "f", "f", "u", "n", "c", "t", "i", "o", "n", "-", "s", "e", "c", "t", "i", "o", "n", "s">>>>,
      <<<<"/", "G", "L">>, <<"-", "f", "l", "t", "o">>>>,
      <<<<"/", "M", "T">>, <<"-", "s", "t", "a", "t", "i", "c">>>>,
      <<<<"/", "M", "T", "d">>, <<"-", "s", "t", "a", "t", "i", "c">>>>,
      <<<<"/", "M", "D">>, <<>>>>,
      <<<<"/", "M", "D", "d">>, <<>>>>,
      <<<<"/", "E", "H", "s", "c">>, <<"-", "f", "e", "x", "c", "e", "p", "t", "i", "o", "n", "s">>>>,
      <<<<"/", "E", "H", "a">>, <<"-", "f", "e", "x", "c", "e", "p", "t", "i", "o", "n", "s">>>>,
      <<<<"/", "Z", "i">>, <<"-", "g">>>>,
      <<<<"/", "Z", "I">>, <<"-", "g">>>>,
      <<<<"/", "R", "T", "C", "1">>, <<>>>>,
      <<<<"/", "f", "p", ":", "f", "a", "s", "t">>, <<"-", "f", "f", "a", "s", "t", "-", "m", "a", "t", "h">>>>,
      <<<<"/", "f", "p", ":", "p", "r", "e", "c", "i", "s", "e">>, <<>>>>,
      <<<<"/", "f", "p", ":", "s", "t", "r", "i", "c", "t">>, <<"-", "f", "r", "o", "u", "n", "d", "i", "n", "g", "-", "m", "a", "t", "h">>>>,
      <<<<"/", "G", "d">>, <<>>>>,
      <<<<"/", "G", "r">>, <<"-", "m", "r", "t", "d">>>>,
      <<<<"/", "G", "z">>, <<"-", "m", "s", "t", "a", "c", "k", "r", "e", "a", "l", "i", "g", "n">>>>,
      <<<<"/", "p", "e", "r", "m", "i", "s", "s", "i", "v", "e", "-">>, <<"-", "f", "p", "e", "r", "m", "i", "s", "s", "i", "v", "e">>>>,
      <<<<"/", "s", "t", "d", ":", "c", "+", "+", "1", "4">>, <<"-", "s", "t", "d", "=", "c", "+", "+", "1", "4">>>>,
      <<<<"/", "s", "t", "d", ":", "c", "+", "+", "1", "7">>, <<"-", "s", "t", "d", "=", "c", "+", "+", "1", "7">>>>,
      <<<<"/", "s", "t", "d", ":", "c", "+", "+", "2", "0">>, <<"-", "s", "t", "d", "=", "c", "+", "+", "2", "0">>>>,
      <<<<"/", "s", "t", "d", ":", "c", "+", "+", "l", "a", "t", "e", "s", "t">>, <<"-", "s", "t", "d", "=", "c", "+", "+", "2", "0">>>>,
      <<<<"/", "Z", "c", ":", "w", "c", "h", "a", "r", "_", "t">>, <<>>>>,
      <<<<"/", "Z", "c", ":", "f", "o", "r", "S", "c", "o", "p", "e">>, <<>>>>,
      <<<<"/", "Z", "c", ":", "i", "n", "l", "i", "n", "e">>, <<>>>>
    >>

SKIP_DEFINITIONS ==
    {
      <<"_", "M", "B", "C", "S">>, <<"_", "A", "F", "X", "D", "L", "L">>, <<"_", "A", "T", "L", "_", "D", "L", "L">>, <<"V", "C", "_", "E", "X", "T", "R", "A", "L", "E", "A", "N">>,
      <<"_", "C", "R", "T", "_", "S", "E", "C", "U", "R", "E", "_", "N", "O", "_", "W", "A", "R", "N", "I", "N", "G", "S">>, <<"_", "S", "C", "L", "_", "S", "E", "C", "U", "R", "E", "_", "N", "O", "_", "W", "A", "R", "N", "I", "N", "G", "S">>,
      <<"_", "C", "R", "T", "_", "N", "O", "N", "S", "T", "D", "C", "_", "N", "O", "_", "D", "E", "P", "R", "E", "C", "A", "T", "E">>, <<"_", "C", "R", "T", "_", "S", "E", "C", "U", "R", "E", "_", "N", "O", "_", "D", "E", "P", "R", "E", "C", "A", "T", "E">>
    }

\* self.data.get(key, default)
DataGet(data, key, default) ==
    IF key \in DOMAIN data THEN data[key] ELSE default

\* s.startswith(prefix)
StartsWith(s, prefix) == MatchAt(prefix, s, 1)

\* dict[key]
GetItem(dict, key) ==
    dict[CHOOSE i \in 1..Len(dict) : dict[i][1] = key][2]

\* _convert_msvc_flag when the table is not consulted
ConvertMsvcFlagUnmapped(flag0) ==
    LET flag == Strip(flag0)
    IN  IF StartsWith(flag, <<"/", "D">>)
        THEN <<"-", "D">> \o SubSeq(flag, 3, Len(flag))
        ELSE IF StartsWith(flag, <<"-", "D">>) THEN flag
        ELSE IF StartsWith(flag, <<"/", "I">>)
        THEN <<"-", "I">> \o SubSeq(flag, 3, Len(flag))
        ELSE IF StartsWith(flag, <<"-", "I">>) THEN flag
        ELSE IF StartsWith(flag, <<"/", "w", "d">>) THEN NoneStr
        ELSE IF StartsWith(flag, <<"/">>) THEN NoneStr
        ELSE flag

\* _convert_msvc_flag without its last test: an unknown switch is returned
\* as it stands
ConvertMsvcFlagKeepUnknown(flag0) ==
    LET flag == Strip(flag0)
    IN  IF HasKey(MSVC_TO_GCC_FLAGS, flag)
        THEN GetItem(MSVC_TO_GCC_FLAGS, flag)
        ELSE IF StartsWith(flag, <<"/", "D">>)
        THEN <<"-", "D">> \o SubSeq(flag, 3, Len(flag))
        ELSE IF StartsWith(flag, <<"-", "D">>) THEN flag
        ELSE IF StartsWith(flag, <<"/", "I">>)
        THEN <<"-", "I">> \o SubSeq(flag, 3, Len(flag))
        ELSE IF StartsWith(flag, <<"-", "I">>) THEN flag
        ELSE IF StartsWith(flag, <<"/", "w", "d">>) THEN NoneStr
        ELSE flag

\* CMakeGenerator._convert_msvc_flag
ConvertMsvcFlag(flag0) ==
    LET flag == Strip(flag0)
    IN  IF HasKey(MSVC_TO_GCC_FLAGS, flag)
        THEN GetItem(MSVC_TO_GCC_FLAGS, flag)
        ELSE IF StartsWith(flag, <<"/", "D">>)
        THEN <<"-", "D">> \o SubSeq(flag, 3, Len(flag))
        ELSE IF StartsWith(flag, <<"-", "D">>) THEN flag
        ELSE IF StartsWith(flag, <<"/", "I">>)
        THEN <<"-", "I">> \o SubSeq(flag, 3, Len(flag))
        ELSE IF StartsWith(flag, <<"-", "I">>) THEN flag
        ELSE IF StartsWith(flag, <<"/", "w", "d">>) THEN NoneStr
        ELSE IF StartsWith(flag, <<"/">>) THEN NoneStr
        ELSE flag

\* bool(x) for x an Optional[str]
Truthy(x) == x # NoneStr /\ x # <<>>

\* CMakeGenerator._filter_definitions
RECURSIVE FilterDefinitions(_)
FilterDefinitions(definitions) ==
    IF definitions = <<>> THEN <<>>
    ELSE IF Head(definitions) \in SKIP_DEFINITIONS
    THEN FilterDefinitions(Tail(definitions))
    ELSE <<Head(definitions)>> \o FilterDefinitions(Tail(definitions))

\* lib.replace('.lib', '').replace('.Lib', '').replace('.LIB', '')
SimpleLibName(lib) ==
    Replace(Replace(Replace(lib, <<".", "l", "i", "b">>, <<>>), <<".", "L", "i", "b">>, <<>>),
            <<".", "L", "I", "B">>, <<>>)

\* _get_libraries: the libs set after the loop over the project's libraries
ProjectLibs(libraries, mapper) ==
    IF mapper # <<>>
    THEN { MapLibrary(mapper, libraries[i]) : i \in 1..Len(libraries) }
             \ { NoneStr, <<>> }
    ELSE { SimpleLibName(libraries[i]) : i \in 1..Len(libraries) }

default_libs ==
    <<
      <<"k", "e", "r", "n", "e", "l", "3", "2">>, <<"u", "s", "e", "r", "3", "2">>, <<"g", "d", "i", "3", "2">>, <<"w", "i", "n", "s", "p", "o", "o", "l">>, <<"c", "o", "m", "d", "l", "g", "3", "2">>,
      <<"a", "d", "v", "a", "p", "i", "3", "2">>, <<"s", "h", "e", "l", "l", "3", "2">>, <<"o", "l", "e", "3", "2">>, <<"o", "l", "e", "a", "u", "t", "3", "2">>, <<"u", "u", "i", "d">>,
      <<"o", "d", "b", "c", "3", "2">>, <<"o", "d", "b", "c", "c", "p", "3", "2">>, <<"w", "s", "2", "_", "3", "2">>, <<"c", "r", "y", "p", "t", "3", "2">>, <<"s", "e", "c", "u", "r", "3", "2">>,
      <<"r", "p", "c", "r", "t", "4">>, <<"n", "t", "d", "l", "l">>, <<"s", "h", "l", "w", "a", "p", "i">>, <<"v", "e", "r", "s", "i", "o", "n">>, <<"p", "s", "a", "p", "i">>,
      <<"u", "s", "e", "r", "e", "n", "v">>, <<"w", "t", "s", "a", "p", "i", "3", "2">>, <<"n", "e", "t", "a", "p", "i", "3", "2">>
    >>

\* _get_libraries returning the project's libraries only
GetLibrariesWithoutDefaults(data, mapper, seed) ==
    Sorted(ListOfSet(
        ProjectLibs(DataGet(data, "additional_libraries", <<>>), mapper), seed))

\* CMakeGenerator._get_libraries; the set is walked as the hash seed has it
GetLibraries(data, mapper, seed) ==
    Sorted(ListOfSet(
        ProjectLibs(DataGet(data, "additional_libraries", <<>>), mapper)
            \cup Range(default_libs),
        seed))

\* for x in items: if x not in list: list.append(x)
RECURSIVE AppendMissing(_, _)
AppendMissing(list, items) ==
    IF items = <<>> THEN list
    ELSE AppendMissing(
             IF Head(items) \in Range(list) THEN list
             ELSE Append(list, Head(items)),
             Tail(items))

\* _get_compile_definitions (essential)
EssentialDefinitions(config) ==
    << <<"W", "I", "N", "3", "2">>, <<"_", "W", "I", "N", "D", "O", "W", "S">>, <<"U", "N", "I", "C", "O", "D", "E">>, <<"_", "U", "N", "I", "C", "O", "D", "E">>, <<"S", "E", "C", "U", "R", "I", "T", "Y", "_", "W", "I", "N", "3", "2">>,
       <<"G", "U", "I", "D", "_", "N", "U", "L", "L", "=", "I", "I", "D", "_", "N", "U", "L", "L">> >>
        \o (IF config = Debug THEN << <<"_", "D", "E", "B", "U", "G">>, <<"D", "E", "B", "U", "G">> >>
            ELSE << <<"N", "D", "E", "B", "U", "G">> >>)

\* _get_compile_definitions without the loop over essential
GetCompileDefinitionsFilteredOnly(data) ==
    FilterDefinitions(DataGet(data, "preprocessor_definitions", <<>>))

\* CMakeGenerator._get_compile_definitions
GetCompileDefinitions(data) ==
    AppendMissing(
        FilterDefinitions(DataGet(data, "preprocessor_definitions", <<>>)),
        EssentialDefinitions(DataGet(data, "config", Release)))

\* the loop over additional_options: the converted flags that are truthy
RECURSIVE ConvertedFlags(_)
ConvertedFlags(flags) ==
    IF flags = <<>> THEN <<>>
    ELSE LET converted == ConvertMsvcFlag(Head(flags))
         IN  (IF Truthy(converted) THEN <<converted>> ELSE <<>>)
                 \o ConvertedFlags(Tail(flags))

\* the tail every options getter shares: the standard flags, the project's
\* optimization and, for Debug, -g, each appended when not there yet
WithStandardFlags(options, standard_flags, data) ==
    LET optimization == DataGet(data, "optimization", <<"-", "O", "2">>)
        config == DataGet(data, "config", Release)
    IN  AppendMissing(
            AppendMissing(
                AppendMissing(options, standard_flags),
                IF optimization # <<>> THEN <<optimization>> ELSE <<>>),
            IF config = Debug THEN << <<"-", "g">> >> ELSE <<>>)

\* CMakeGenerator._get_compile_options
GetCompileOptions(data) ==
    WithStandardFlags(
        ConvertedFlags(DataGet(data, "additional_options", <<>>)),
        << <<"-", "W", "n", "o", "-", "d", "e", "p", "r", "e", "c", "a", "t", "e", "d", "-", "d", "e", "c", "l", "a", "r", "a", "t", "i", "o", "n", "s">>, <<"-", "W", "n", "o", "-", "w", "r", "i", "t", "e", "-", "s", "t", "r", "i", "n", "g", "s">>,
           <<"-", "m", "u", "n", "i", "c", "o", "d", "e">>, <<"-", "f", "n", "o", "-", "s", "t", "r", "i", "c", "t", "-", "a", "l", "i", "a", "s", "i", "n", "g">>, <<"-", "f", "m", "s", "-", "e", "x", "t", "e", "n", "s", "i", "o", "n", "s">>,
           <<"-", "W", "n", "o", "-", "e", "x", "p", "a", "n", "s", "i", "o", "n", "-", "t", "o", "-", "d", "e", "f", "i", "n", "e", "d">> >>,
        data)

\* CMakeGenerator._get_c_compile_options
GetCCompileOptions(data) ==
    WithStandardFlags(
        <<>>,
        << <<"-", "W", "n", "o", "-", "d", "e", "p", "r", "e", "c", "a", "t", "e", "d", "-", "d", "e", "c", "l", "a", "r", "a", "t", "i", "o", "n", "s">>, <<"-", "f", "n", "o", "-", "s", "t", "r", "i", "c", "t", "-", "a", "l", "i", "a", "s", "i", "n", "g">>,
           <<"-", "f", "m", "s", "-", "e", "x", "t", "e", "n", "s", "i", "o", "n", "s">> >>,
        data)

\* CMakeGenerator._get_cpp_compile_options
GetCppCompileOptions(data) ==
    WithStandardFlags(
        ConvertedFlags(DataGet(data, "additional_options", <<>>)),
        << <<"-", "W", "n", "o", "-", "d", "e", "p", "r", "e", "c", "a", "t", "e", "d", "-", "d", "e", "c", "l", "a", "r", "a", "t", "i", "o", "n", "s">>, <<"-", "W", "n", "o", "-", "w", "r", "i", "t", "e", "-", "s", "t", "r", "i", "n", "g", "s">>,
           <<"-", "f", "n", "o", "-", "s", "t", "r", "i", "c", "t", "-", "a", "l", "i", "a", "s", "i", "n", "g">>, <<"-", "f", "m", "s", "-", "e", "x", "t", "e", "n", "s", "i", "o", "n", "s">>,
           <<"-", "W", "n", "o", "-", "e", "x", "p", "a", "n", "s", "i", "o", "n", "-", "t", "o", "-", "d", "e", "f", "i", "n", "e", "d">> >>,
        data)

\* the loop body of the three source getters: backslashes to slashes, the
\* file name (what follows the last slash) in lower case
LowerFileName(src0) ==
    LET src == Replace(src0, <<"\\">>, <<"/">>)
        slashes == { i \in 1..Len(src) : src[i] = "/" }
        last == IF slashes = {} THEN 0
                ELSE CHOOSE i \in slashes : \A j \in slashes : j <= i
    IN  SubSeq(src, 1, last) \o Lower(SubSeq(src, last + 1, Len(src)))

\* src.lower().endswith(extensions)
HasExtension(src, extensions) ==
    \E ext \in extensions : EndsWith(Lower(Replace(src, <<"\\">>, <<"/">>)), ext)

\* the fallback loop of _get_c_source_files and _get_cpp_source_files
RECURSIVE SourcesWith(_, _)
SourcesWith(source_files, extensions) ==
    IF source_files = <<>> THEN <<>>
    ELSE (IF HasExtension(Head(source_files), extensions)
          THEN <<LowerFileName(Head(source_files))>> ELSE <<>>)
             \o SourcesWith(Tail(source_files), extensions)

\* CMakeGenerator._get_source_files
GetSourceFiles(data) ==
    LET source_files == DataGet(data, "source_files", <<>>)
    IN  [i \in 1..Len(source_files) |-> LowerFileName(source_files[i])]

\* CMakeGenerator._get_c_source_files
GetCSourceFiles(data) ==
    LET c_files == DataGet(data, "c_source_files", <<>>)
    IN  IF c_files # <<>>
        THEN [i \in 1..Len(c_files) |-> LowerFileName(c_files[i])]
        ELSE SourcesWith(DataGet(data, "source_files", <<>>), { <<".", "c">> })

\* CMakeGenerator._get_cpp_source_files
GetCppSourceFiles(data) ==
    LET cpp_files == DataGet(data, "cpp_source_files", <<>>)
    IN  IF cpp_files # <<>>
        THEN [i \in 1..Len(cpp_files) |-> LowerFileName(cpp_files[i])]
        ELSE SourcesWith(DataGet(data, "source_files", <<>>),
                         { <<".", "c", "p", "p">>, <<".", "c", "x", "x">>, <<".", "c", "c">>, <<".", "c", "+", "+">> })

\* has_c of generate when the C sources are not told from the others
HasCNever(data) == FALSE

\* has_c of generate
HasC(data) == Len(GetCSourceFiles(data)) > 0

\* has_cpp of generate
HasCpp(data) == Len(GetCppSourceFiles(data)) > 0

\* \w of re
WordChars ==
    Range(UpperCase) \cup Range(LowerCase) \cup Range(Digits) \cup {"_"}

\* \s of re
Blanks == {" ", "\t", "\n", "\r", "\f"}

\* re.search(r'\b' + name + r'\s*\(', content)
SearchCall(name, text) ==
    \E i \in 1..Len(text) :
        /\ MatchAt(name, text, i)
        /\ (i = 1 \/ text[i - 1] \notin WordChars)
        /\ \E j \in (i + Len(name))..Len(text) :
               /\ text[j] = "("
               /\ \A k \in (i + Len(name))..(j - 1) : text[k] \in Blanks

\* CMakeGenerator._detect_wide_entry_point; files is the project directory:
\* the text of each file in it and whether read_text succeeds
DetectWideEntryPoint(data, files) ==
    LET source_files == DataGet(data, "source_files", <<>>)
    IN  \E i \in 1..Len(source_files) :
            LET path == Replace(source_files[i], <<"\\">>, <<"/">>)
                src_path == IF path \in DOMAIN files THEN path ELSE Lower(path)
            IN  /\ src_path \in DOMAIN files
                /\ files[src_path].readable
                /\ \/ SearchCall(<<"w", "m", "a", "i", "n">>, files[src_path].text)
                   \/ SearchCall(<<"w", "W", "i", "n", "M", "a", "i", "n">>, files[src_path].text)

\* _get_link_options when the sources are never looked into
GetLinkOptionsAlwaysWide(data, files) ==
    LET subsystem == Lower(DataGet(data, "subsystem", <<"C", "o", "n", "s", "o", "l", "e">>))
        runtime == DataGet(data, "runtime_library", <<>>)
    IN  (IF IsSubstr(<<"c", "o", "n", "s", "o", "l", "e">>, subsystem) THEN << <<"-", "m", "c", "o", "n", "s", "o", "l", "e">> >>
         ELSE IF IsSubstr(<<"w", "i", "n", "d", "o", "w", "s">>, subsystem) THEN << <<"-", "m", "w", "i", "n", "d", "o", "w", "s">> >>
         ELSE <<>>)
        \o << <<"-", "m", "u", "n", "i", "c", "o", "d", "e">> >>
        \o (IF IsSubstr(<<"M", "u", "l", "t", "i", "T", "h", "r", "e", "a", "d", "e", "d">>, runtime) /\ ~IsSubstr(<<"D", "L", "L">>, runtime)
            THEN << <<"-", "s", "t", "a", "t", "i", "c">>, <<"-", "s", "t", "a", "t", "i", "c", "-", "l", "i", "b", "g", "c", "c">>, <<"-", "s", "t", "a", "t", "i", "c", "-", "l", "i", "b", "s", "t", "d", "c", "+", "+">> >>
            ELSE <<>>)

\* CMakeGenerator._get_link_options
GetLinkOptions(data, files) ==
    LET subsystem == Lower(DataGet(data, "subsystem", <<"C", "o", "n", "s", "o", "l", "e">>))
        runtime == DataGet(data, "runtime_library", <<>>)
    IN  (IF IsSubstr(<<"c", "o", "n", "s", "o", "l", "e">>, subsystem) THEN << <<"-", "m", "c", "o", "n", "s", "o", "l", "e">> >>
         ELSE IF IsSubstr(<<"w", "i", "n", "d", "o", "w", "s">>, subsystem) THEN << <<"-", "m", "w", "i", "n", "d", "o", "w", "s">> >>
         ELSE <<>>)
        \o (IF DetectWideEntryPoint(data, files) THEN << <<"-", "m", "u", "n", "i", "c", "o", "d", "e">> >>
            ELSE <<>>)
        \o (IF IsSubstr(<<"M", "u", "l", "t", "i", "T", "h", "r", "e", "a", "d", "e", "d">>, runtime) /\ ~IsSubstr(<<"D", "L", "L">>, runtime)
            THEN << <<"-", "s", "t", "a", "t", "i", "c">>, <<"-", "s", "t", "a", "t", "i", "c", "-", "l", "i", "b", "g", "c", "c">>, <<"-", "s", "t", "a", "t", "i", "c", "-", "l", "i", "b", "s", "t", "d", "c", "+", "+">> >>
            ELSE <<>>)

\* CMakeGenerator._get_include_directories: the list it returns
IncludeDirectoriesOf(data) ==
    LET includes == DataGet(data, "include_directories", <<>>)
        with_dot == IF <<".">> \in Range(includes) THEN includes
                    ELSE << <<".">> >> \o includes
    IN  IF <<"m", "i", "n", "g", "w", "_", "s", "t", "u", "b", "s">> \in Range(with_dot) THEN with_dot
        ELSE Append(with_dot, <<"m", "i", "n", "g", "w", "_", "s", "t", "u", "b", "s">>)

\* CMakeGenerator._get_include_directories: the project data it leaves.
\* When '.' is in the list, includes is still the list of the data, and
\* includes.append('mingw_stubs') appends to that list.
DataAfterIncludeDirectories(data) ==
    LET includes == DataGet(data, "include_directories", <<>>)
    IN  IF /\ "include_directories" \in DOMAIN data
           /\ <<".">> \in Range(includes)
           /\ <<"m", "i", "n", "g", "w", "_", "s", "t", "u", "b", "s">> \notin Range(includes)
        THEN [data EXCEPT !["include_directories"] = Append(@, <<"m", "i", "n", "g", "w", "_", "s", "t", "u", "b", "s">>)]
        ELSE data

\* config_type of generate
ConfigType(data) == DataGet(data, "configuration_type", <<"A", "p", "p", "l", "i", "c", "a", "t", "i", "o", "n">>)

\* the command that creates the target
TargetCommand(data) ==
    IF ConfigType(data) = <<"D", "y", "n", "a", "m", "i", "c", "L", "i", "b", "r", "a", "r", "y">> THEN "add_library SHARED"
    ELSE IF ConfigType(data) = <<"S", "t", "a", "t", "i", "c", "L", "i", "b", "r", "a", "r", "y">> THEN "add_library STATIC"
    ELSE "add_executable"

\* the SUFFIX property of the target
TargetSuffix(data) ==
    IF ConfigType(data) = <<"D", "y", "n", "a", "m", "i", "c", "L", "i", "b", "r", "a", "r", "y">> THEN ".dll"
    ELSE IF ConfigType(data) = <<"S", "t", "a", "t", "i", "c", "L", "i", "b", "r", "a", "r", "y">> THEN ".lib"
    ELSE ".exe"

\* CMakeGenerator.generate: the source lists, the target and its suffix, the
\* lines of target_include_directories, of target_compile_definitions, of
\* target_compile_options (or, for a project of C and C++ sources, of the
\* two COMPILE_OPTIONS properties), of target_link_options and of
\* target_link_libraries
GenerateOf(data, mapper, files, seed) ==
    LET is_mixed == HasC(data) /\ HasCpp(data)
    IN  [is_mixed |-> is_mixed,
         sources_c |-> IF is_mixed THEN GetCSourceFiles(data) ELSE <<>>,
         sources_cxx |-> IF is_mixed THEN GetCppSourceFiles(data) ELSE <<>>,
         sources |-> IF is_mixed
                     THEN GetCSourceFiles(data) \o GetCppSourceFiles(data)
                     ELSE GetSourceFiles(data),
         target |-> TargetCommand(data),
         suffix |-> TargetSuffix(data),
         include_directories |-> IncludeDirectoriesOf(data),
         cxx_municode |-> is_mixed /\ DetectWideEntryPoint(data, files),
         link_options |-> GetLinkOptions(data, files),
         definitions |-> GetCompileDefinitions(data),
         options |-> IF is_mixed THEN <<>> ELSE GetCompileOptions(data),
         c_options |-> IF is_mixed THEN GetCCompileOptions(data) ELSE <<>>,
         cpp_options |-> IF is_mixed THEN GetCppCompileOptions(data) ELSE <<>>,
         libraries |-> GetLibraries(data, mapper, seed)]

(***************************************************************************)
(* The generator's callers: generate_from_vcxproj on a project file and    *)
(* generate_from_json on project data read from JSON.                      *)
(***************************************************************************)
\* the spec's scenario file: /W4, /O2 and FOO=1 under Release|x64
ScenarioFile ==
    << [tag |-> "ItemDefinitionGroup", container |-> "ClCompile",
        Condition |-> ConditionOn(Release, x64),
        children |->
            << [tag |-> "PreprocessorDefinitions",
                text |-> <<"F", "O", "O", "=", "1", ";", "%", "(", "P", "r", "e", "p", "r", "o", "c", "e", "s", "s", "o", "r", "D", "e", "f", "i", "n", "i", "t", "i", "o", "n", "s", ")">>],
               [tag |-> "AdditionalOptions",
                text |-> <<"/", "W", "4", " ", "/", "O", "2", " ", "%", "(", "A", "d", "d", "i", "t", "i", "o", "n", "a", "l", "O", "p", "t", "i", "o", "n", "s", ")">>] >>] >>

\* a project file whose include directory is spelled with the macros of
\* the configuration and the platform
MacroFile ==
    << [tag |-> "ItemDefinitionGroup", container |-> "ClCompile",
        Condition |-> <<>>,
        children |->
            << [tag |-> "AdditionalIncludeDirectories",
                text |-> <<"o", "u", "t", "\\", "$", "(", "C", "o", "n", "f", "i", "g", "u", "r", "a", "t", "i", "o", "n", ")", "\\", "$", "(", "P", "l", "a", "t", "f", "o", "r", "m", ")">>] >>] >>

ConfigurationTypes ==
    { <<"A", "p", "p", "l", "i", "c", "a", "t", "i", "o", "n">>, <<"D", "y", "n", "a", "m", "i", "c", "L", "i", "b", "r", "a", "r", "y">>, <<"S", "t", "a", "t", "i", "c", "L", "i", "b", "r", "a", "r", "y">>, <<"U", "t", "i", "l", "i", "t", "y">> }

\* a project file that declares the type of its artifact
TypedFile(type) ==
    << [tag |-> "PropertyGroup", container |-> "",
        Condition |-> <<>>,
        children |-> << [tag |-> "ConfigurationType", text |-> type] >>] >>

\* the project files handed to generate_from_vcxproj
GenFiles ==
    {ScenarioFile, MacroFile}
        \cup { TypedFile(type) : type \in ConfigurationTypes }
        \cup { f \in VcxFiles : Len(f) = 1 }

\* what the lists of JSON project data are made of
DefinitionTokens ==
    { <<"_", "M", "B", "C", "S">>, <<"_", "C", "R", "T", "_", "S", "E", "C", "U", "R", "E", "_", "N", "O", "_", "W", "A", "R", "N", "I", "N", "G", "S">>, <<"F", "O", "O", "=", "1">>, <<"Z", "E", "D">>, <<"W", "I", "N", "3", "2">>,
      <<"N", "D", "E", "B", "U", "G">>, <<"_", "D", "E", "B", "U", "G">>, <<"D", "E", "B", "U", "G">> }

OptionTokens ==
    { <<"/", "W", "4">>, <<"/", "O", "2">>, <<"/", "M", "D">>, <<"/", "D", "_", "M", "B", "C", "S">>, <<"-", "D", "_", "C", "R", "T", "_", "S", "E", "C", "U", "R", "E", "_", "N", "O", "_", "W", "A", "R", "N", "I", "N", "G", "S">>,
      <<"/", "D", "F", "O", "O">>, <<"/", "w", "d", "4", "9", "9", "6">>, <<"/", "I", "s", "r", "c">>, <<"/", "Z", "x">>, <<"-", "g">>, <<"-", "m", "u", "n", "i", "c", "o", "d", "e">> }

LibraryTokens ==
    { <<"W", "s", "2", "_", "3", "2", ".", "l", "i", "b">>, <<"w", "s", "2", "_", "3", "2">>, <<"d", "b", "g", "h", "e", "l", "p", ".", "l", "i", "b">>, <<"a", "t", "l", ".", "l", "i", "b">>, <<"n", "o", "s", "u", "c", "h">>,
      <<"s", "d", "k", "\\", "K", "e", "r", "n", "e", "l", "3", "2", ".", "L", "i", "b">> }

SourceLists ==
    { <<>>, << <<"m", "a", "i", "n", ".", "c", "p", "p">> >>, << <<"s", "r", "c", "\\", "u", "t", "i", "l", ".", "C">>, <<"m", "a", "i", "n", ".", "c", "p", "p">> >>,
      << <<"u", "t", "i", "l", ".", "c">> >>, << <<"u", "t", "i", "l", ".", "c">>, <<"m", "a", "i", "n", ".", "c", "p", "p">>, <<"m", "o", "d", ".", "i", "x", "x">> >> }

IncludeLists ==
    { <<>>, << <<"i", "n", "c">> >>, << <<".">> >>, << <<".">>, <<"i", "n", "c">> >>,
      << <<"m", "i", "n", "g", "w", "_", "s", "t", "u", "b", "s">>, <<"i", "n", "c">> >>, << <<"i", "n", "c">>, <<".">>, <<"m", "i", "n", "g", "w", "_", "s", "t", "u", "b", "s">> >> }

\* a source file of the project directory
File(text, readable) == [text |-> text, readable |-> readable]

\* the project directories the generator may find
Disks ==
    { <<>>,
      <<"m", "a", "i", "n", ".", "c", "p", "p">> :> File(<<"i", "n", "t", " ", "w", "m", "a", "i", "n", "(", "i", "n", "t", " ", "a", "r", "g", "c">>, TRUE),
      <<"m", "a", "i", "n", ".", "c", "p", "p">> :> File(<<"i", "n", "t", " ", "m", "a", "i", "n", "(", "i", "n", "t", " ", "a", "r", "g", "c">>, TRUE),
      <<"m", "a", "i", "n", ".", "c", "p", "p">> :> File(<<"i", "n", "t", " ", "w", "m", "a", "i", "n", "(", "i", "n", "t", " ", "a", "r", "g", "c">>, FALSE),
      <<"m", "a", "i", "n", ".", "c", "p", "p">> :> File(<<"i", "n", "t", " ", "m", "y", "_", "w", "m", "a", "i", "n", "(", "v", "o", "i", "d", ")">>, TRUE),
      <<"m", "a", "i", "n", ".", "c", "p", "p">> :> File(<<"i", "n", "t", " ", "s", "w", "m", "a", "i", "n", " ", "(", "x", ")", " ", "w", "m", "a", "i", "n", ";">>, TRUE),
      <<"s", "r", "c", "/", "u", "t", "i", "l", ".", "c">> :> File(<<"W", "I", "N", "A", "P", "I", " ", "w", "W", "i", "n", "M", "a", "i", "n", " ", "(", "H", "I", "N", "S", "T", "A", "N", "C", "E">>, TRUE),
      <<"o", "t", "h", "e", "r", ".", "c", "p", "p">> :> File(<<"i", "n", "t", " ", "w", "m", "a", "i", "n", "(">>, TRUE),
      (<<"m", "a", "i", "n", ".", "c", "p", "p">> :> File(<<"i", "n", "t", " ", "m", "a", "i", "n", "(">>, TRUE))
          @@ (<<"u", "t", "i", "l", ".", "c">> :> File(<<"w", "m", "a", "i", "n", "(">>, TRUE)) }

MaxDefinitions == 2
MaxOptions == 2
MaxLibraries == 2

\* the lists of at most n members of S
ListsUpTo(S, n) == UNION { SeqsOfLen(S, k) : k \in 0..n }

JsonBases ==
    { [project_name |-> PathStem, config |-> config] : config \in {Release, Debug} }

JsonData ==
    { [project_name |-> PathStem] }
        \cup { base @@ [preprocessor_definitions |-> definitions] :
                   base \in JsonBases,
                   definitions \in ListsUpTo(DefinitionTokens, MaxDefinitions) }
        \cup { base @@ [additional_options |-> options,
                        optimization |-> optimization] :
                   base \in JsonBases,
                   options \in ListsUpTo(OptionTokens, MaxOptions),
                   optimization \in { <<"-", "O", "2">>, <<>> } }
        \cup { base @@ [additional_libraries |-> libraries] :
                   base \in JsonBases,
                   libraries \in ListsUpTo(LibraryTokens, MaxLibraries) }
        \cup { base @@ [source_files |-> sources,
                        preprocessor_definitions |-> << <<"_", "M", "B", "C", "S">> >>,
                        additional_options |-> << <<"/", "D", "_", "A", "F", "X", "D", "L", "L">>, <<"/", "W", "4">> >>] :
                   base \in JsonBases, sources \in SourceLists }
        \cup { base @@ [source_files |-> << <<"u", "t", "i", "l", ".", "c">>, <<"m", "a", "i", "n", ".", "c", "p", "p">> >>,
                        c_source_files |-> << <<"U", "t", "i", "l", ".", "c">> >>,
                        cpp_source_files |-> << <<"M", "a", "i", "n", ".", "c", "p", "p">> >>] :
                   base \in JsonBases }
        \cup { base @@ [include_directories |-> includes] :
                   base \in JsonBases, includes \in IncludeLists }
        \cup { base @@ [configuration_type |-> type] :
                   base \in JsonBases, type \in ConfigurationTypes }
        \cup { base @@ [subsystem |-> subsystem,
                        runtime_library |-> runtime] :
                   base \in JsonBases,
                   subsystem \in { <<"C", "o", "n", "s", "o", "l", "e">>, <<"W", "i", "n", "d", "o", "w", "s">>, <<"N", "a", "t", "i", "v", "e">> },
                   runtime \in { <<"M", "u", "l", "t", "i", "T", "h", "r", "e", "a", "d", "e", "d">>, <<"M", "u", "l", "t", "i", "T", "h", "r", "e", "a", "d", "e", "d", "D", "L", "L">>,
                                 <<"M", "u", "l", "t", "i", "T", "h", "r", "e", "a", "d", "e", "d", "D", "e", "b", "u", "g">> } }

\* the module's LibraryMapper name: the class, or None when its import failed
Mappers == { LibraryMapperInit, <<>> }

GenInit ==
    /\ root \in GenFiles \cup {<<>>}
    /\ project_data \in (IF root = <<>> THEN JsonData ELSE {<<>>})
    /\ library_mapper \in Mappers
    /\ generated = <<>>
    /\ disk \in (IF root = <<>> /\ "source_files" \in DOMAIN project_data
                  THEN Disks ELSE {<<>>})
    /\ resolved_key = <<>>
    /\ settings = <<>>
    /\ again = FALSE
    /\ call = <<>>
    /\ returned = <<>>
    /\ content = <<>>
    /\ projects = <<>>
    /\ dependencies = <<>>
    /\ build_configurations = <<>>
    /\ warnings = <<>>
    /\ last_order = <<>>
    /\ pc = "idle"
    /\ ret = NoReturn
    /\ project_type = None
    /\ relevant_projects = <<>>
    /\ in_degree = <<>>
    /\ graph = <<>>
    /\ queue = <<>>
    /\ result = <<>>
    /\ emitted = 0

\* generate_from_vcxproj(path, config, platform): parse_all, then generate
GenerateFromVcxproj(key) ==
    /\ root # <<>>
    /\ generated = <<>>
    /\ \E seed \in HashSeeds :
           /\ settings' = ParseAllOf(root, key[1], key[2], seed)
           /\ project_data' = DataAfterIncludeDirectories(settings')
           /\ generated' = <<GenerateOf(settings', library_mapper, disk, seed)>>
    /\ resolved_key' = key
    /\ UNCHANGED <<root, again, library_mapper, disk, slnVars, callVars>>

\* generate_from_json(json_data)
GenerateFromJson ==
    /\ root = <<>>
    /\ generated = <<>>
    /\ \E seed \in HashSeeds :
           generated' = <<GenerateOf(project_data, library_mapper, disk, seed)>>
    /\ project_data' = DataAfterIncludeDirectories(project_data)
    /\ UNCHANGED <<library_mapper, disk, vcxVars, slnVars, callVars>>

GenNext ==
    \/ \E key \in ConfigurationKeys : GenerateFromVcxproj(key)
    \/ GenerateFromJson

SpecGen == GenInit /\ [][GenNext]_vars

(***************************************************************************)
(* Calls of single functions: map_library, _expand_macros and              *)
(* _get_condition_match, each on an argument list drawn when the call is   *)
(* made.  call holds the function and its arguments, returned the value    *)
(* once the call has returned.                                             *)
(***************************************************************************)
NotReturned == [done |-> FALSE, value |-> <<>>]

\* c.upper()
UpperChar ==
    [c \in Range(Alphabet) |->
        IF c \in Range(LowerCase) THEN UpperCase[IndexOf(c, LowerCase)] ELSE c]
    @@ <<>>

\* str.upper()
Upper(s) == [i \in 1..Len(s) |-> UpperChar[s[i]]]

\* str.capitalize() of a lower-case name
Capitalize(s) ==
    IF s = <<>> THEN s ELSE <<UpperChar[Head(s)]>> \o Tail(s)

\* library names as project files and JSON data spell them: names of the
\* table, names it lacks, names it marks unavailable, bare or behind a path
LibraryNames ==
    { <<"w", "s", "2", "_", "3", "2">>, <<"k", "e", "r", "n", "e", "l", "3", "2">>, <<"d", "b", "g", "h", "e", "l", "p">>, <<"m", "s", "v", "c", "r", "t", "d">>, <<"d", "3", "d", "c", "o", "m", "p", "i", "l", "e", "r">>,
      <<"p", "t", "h", "r", "e", "a", "d", "G", "C", "2">>, <<"w", "i", "n", "d", "o", "w", "s", ".", "d", "a", "t", "a", ".", "p", "d", "f">>, <<"a", "t", "l">>, <<"s", "v", "c", "c", "t", "l">>, <<"n", "o", "s", "u", "c", "h">>,
      <<"l", "i", "b", "\\", "w", "s", "2", "_", "3", "2">>, <<"s", "d", "k", "/", "u", "m", "/", "x", "6", "4", "/", "u", "s", "e", "r", "3", "2">> }

\* the spellings of one name: as it is, with the suffix, and in other cases
Decorated(name) ==
    { name, name \o <<".", "l", "i", "b">>, Lower(name) \o <<".", "l", "i", "b">>,
      Capitalize(Lower(name)) \o <<".", "l", "i", "b">>, Capitalize(Lower(name)) \o <<".", "L", "i", "b">>,
      Upper(name) \o <<".", "L", "I", "B">>, Upper(name) }

MapLibraryCalls ==
    { [fn |-> "map_library", args |-> <<lib_name>>] :
          lib_name \in UNION { Decorated(name) : name \in LibraryNames } }

\* the pieces the strings handed to _expand_macros are made of
MacroPieces ==
    { <<"$">>, <<"(">>, <<")">>, <<"$", "(", "X", ")">>, <<"(", "Y", ")">>, <<"$", "(", "P", "l", "a", "t", "f", "o", "r", "m", ")">>, <<"s", "r", "c">> }

MaxPieces == 3

RECURSIVE Concat(_)
Concat(pieces) ==
    IF pieces = <<>> THEN <<>> ELSE Head(pieces) \o Concat(Tail(pieces))

ExpandMacrosCalls ==
    { [fn |-> "_expand_macros", args |-> <<Concat(pieces)>>] :
          pieces \in UNION { SeqsOfLen(MacroPieces, n) : n \in 0..MaxPieces } }

\* the Condition attributes handed to _get_condition_match
CallConditions ==
    { <<>>, <<"t", "r", "u", "e">>, <<"'", "$", "(", "C", "o", "n", "f", "i", "g", "u", "r", "a", "t", "i", "o", "n", ")", "'", "=", "=", "'", "R", "e", "l", "e", "a", "s", "e", "'">>,
      <<"'", "$", "(", "P", "l", "a", "t", "f", "o", "r", "m", ")", "'", "=", "=", "'", "x", "6", "4", "'">> }
        \cup { ConditionOn(c, p) : c \in {Release, Debug, Upper(Release)},
                                   p \in {x64, Win32, x86, Upper(x64)} }

GetConditionMatchCalls ==
    { [fn |-> "_get_condition_match", args |-> <<condition, key[1], key[2]>>] :
          condition \in CallConditions, key \in ConfigurationKeys }

\* the options handed to _convert_msvc_flag
FlagTexts ==
    OptionTokens \cup
        { <<" ", "/", "W", "4", " ">>, <<"/", "E", "H", "s", "c">>, <<"/", "D">>, <<"/", "I">>, <<"/">>, <<"/", "I", " ", ".", ".", "\\", "i", "n", "c">>, <<"-", "I", "i", "n", "c">>,
          <<"-", "m", "u", "n", "i", "c", "o", "d", "e">>, <<"W", "4">>, <<"/", "w", "4">>, <<"/", "D", "E", "B", "U", "G">>, <<"/", "I", "n", "c", "l", "u", "d", "e">>, <<>> }

ConvertMsvcFlagCalls ==
    { [fn |-> "_convert_msvc_flag", args |-> <<flag>>] : flag \in FlagTexts }

CallsInit ==
    /\ call \in MapLibraryCalls \cup ExpandMacrosCalls
                    \cup GetConditionMatchCalls \cup ConvertMsvcFlagCalls
    /\ returned = NotReturned
    /\ library_mapper = LibraryMapperInit
    /\ project_data = <<>>
    /\ generated = <<>>
    /\ disk = <<>>
    /\ root = <<>>
    /\ resolved_key = <<>>
    /\ settings = <<>>
    /\ again = FALSE
    /\ content = <<>>
    /\ projects = <<>>
    /\ dependencies = <<>>
    /\ build_configurations = <<>>
    /\ warnings = <<>>
    /\ last_order = <<>>
    /\ pc = "idle"
    /\ ret = NoReturn
    /\ project_type = None
    /\ relevant_projects = <<>>
    /\ in_degree = <<>>
    /\ graph = <<>>
    /\ queue = <<>>
    /\ result = <<>>
    /\ emitted = 0

MapLibraryCall ==
    /\ call.fn = "map_library"
    /\ ~returned.done
    /\ returned' = [done |-> TRUE,
                    value |-> MapLibrary(library_mapper, call.args[1])]
    /\ UNCHANGED <<call, slnVars, vcxVars, genVars>>

ExpandMacrosCall ==
    /\ call.fn = "_expand_macros"
    /\ ~returned.done
    /\ returned' = [done |-> TRUE,
                    value |-> ExpandMacros(call.args[1], PathStem)]
    /\ UNCHANGED <<call, slnVars, vcxVars, genVars>>

GetConditionMatchCall ==
    /\ call.fn = "_get_condition_match"
    /\ ~returned.done
    /\ returned' = [done |-> TRUE,
                    value |-> GetConditionMatch(call.args[1], call.args[2],
                                                call.args[3])]
    /\ UNCHANGED <<call, slnVars, vcxVars, genVars>>

ConvertMsvcFlagCall ==
    /\ call.fn = "_convert_msvc_flag"
    /\ ~returned.done
    /\ returned' = [done |-> TRUE, value |-> ConvertMsvcFlag(call.args[1])]
    /\ UNCHANGED <<call, slnVars, vcxVars, genVars>>

CallsNext ==
    \/ MapLibraryCall
    \/ ExpandMacrosCall
    \/ GetConditionMatchCall
    \/ ConvertMsvcFlagCall

SpecCalls == CallsInit /\ [][CallsNext]_vars


(***************************************************************************)
(* The scopes of a project file as the claims speak of them.               *)
(***************************************************************************)
\* the condition names the key: it holds 'configuration|platform', compared
\* without regard to case
ConditionNames(condition, key) ==
    IsSubstr(Lower(<<"'">> \o key[1] \o <<"|">> \o key[2] \o <<"'">>),
             Lower(condition))

\* an unconditioned scope, or one whose condition matches the key
ScopeContributes(g, key) ==
    g.Condition = <<>> \/ ConditionNames(g.Condition, key)

ListFields ==
    {"preprocessor_definitions", "include_directories",
     "additional_libraries", "additional_options"}

ScalarFields ==
    {"runtime_library", "subsystem", "cpp_standard", "warning_level",
     "optimization"}

\* the values a settings record holds in a field
ValuesOf(rec, f) == IF f \in ListFields THEN Range(rec[f]) ELSE {rec[f]}

\* what a file of the groups gs alone resolves to for the key
ResolvedAlone(gs, key) == ParseAllOf(gs, key[1], key[2], "ascending")

\* the values the key may resolve to in field f: those of the file without
\* any scope, and those each contributing scope gives on its own
ValuesOfContributingScopes(f, key) ==
    ValuesOf(ResolvedAlone(<<>>, key), f)
        \cup UNION { ValuesOf(ResolvedAlone(<<root[i]>>, key), f)
                     : i \in {j \in 1..Len(root) :
                                  ScopeContributes(root[j], key)} }

(***************************************************************************)
(* C8.  For any project file and requested (configuration, platform) key,  *)
(* a value declared only inside a group whose Condition does not match the *)
(* key never appears in the resolved settings for that key (definitions,   *)
(* include directories, libraries, additional options, or any scalar       *)
(* setting): only matching and unconditioned scopes contribute.            *)
(***************************************************************************)
C8_OnlyMatchingScopesContribute ==
    resolved_key # <<>> =>
        \A f \in ListFields \cup ScalarFields :
            ValuesOf(settings, f)
                \subseteq ValuesOfContributingScopes(f, resolved_key)

(***************************************************************************)
(* C9.  Resolving a project file for a (configuration, platform) key that  *)
(* no scope in the file is conditioned on returns the documented default   *)
(* for every scalar property (runtime library MultiThreadedDLL for Release *)
(* else MultiThreadedDebugDLL, subsystem Console, language standard c++11, *)
(* warning level 3, optimization -O2 for Release else -O0), even when the  *)
(* file sets those properties inside scopes conditioned on other keys.     *)
(***************************************************************************)
\* every scope of the file is conditioned, and on another key
OnlyOtherKeys(key) ==
    \A i \in 1..Len(root) :
        /\ root[i].Condition # <<>>
        /\ ~ConditionNames(root[i].Condition, key)

C9_DefaultsForAbsentKey ==
    (resolved_key # <<>> /\ OnlyOtherKeys(resolved_key)) =>
        /\ settings.runtime_library =
               (IF resolved_key[1] = Release THEN <<"M", "u", "l", "t", "i", "T", "h", "r", "e", "a", "d", "e", "d", "D", "L", "L">>
                ELSE <<"M", "u", "l", "t", "i", "T", "h", "r", "e", "a", "d", "e", "d", "D", "e", "b", "u", "g", "D", "L", "L">>)
        /\ settings.subsystem = <<"C", "o", "n", "s", "o", "l", "e">>
        /\ settings.cpp_standard = <<"c", "+", "+", "1", "1">>
        /\ settings.warning_level = 3
        /\ settings.optimization =
               (IF resolved_key[1] = Release THEN <<"-", "O", "2">> ELSE <<"-", "O", "0">>)

(***************************************************************************)
(* C10.  Resolving the same project file for the same (configuration,      *)
(* platform) key twice, on the same or on two fresh parsers, yields        *)
(* identical settings records, field by field and in the same element      *)
(* order: a parse_all call for the key of the call before it returns the   *)
(* record that call returned, whatever the hash seeds of the two calls.    *)
(***************************************************************************)
C10_SameKeySameSettings ==
    [][(resolved_key # <<>> /\ resolved_key' = resolved_key)
           => settings' = settings]_vars

\* a key resolved twice in a row, over a file whose include directories are
\* walked out of a set of two
C10_Witness ==
    /\ again
    /\ \E i \in 1..Len(root) :
           root[i].children[1].tag = "AdditionalIncludeDirectories"
    /\ Len(settings.include_directories) >= 2


(***************************************************************************)
(* Scalar settings and the order of include directories.                   *)
(***************************************************************************)
\* the element that sets a scalar field
TagOfField ==
    [runtime_library |-> "RuntimeLibrary", subsystem |-> "SubSystem",
     cpp_standard |-> "LanguageStandard", warning_level |-> "WarningLevel",
     optimization |-> "Optimization"]

\* the scopes of the file that match the key and set field f
ScopesSetting(f, key) ==
    { i \in 1..Len(root) :
          /\ ScopeContributes(root[i], key)
          /\ \E c \in 1..Len(root[i].children) :
                 root[i].children[c].tag = TagOfField[f] }

\* the greatest member of a set of numbers
Last(S) == CHOOSE i \in S : \A j \in S : j <= i

\* C18: when several scopes that match the requested key set the same
\* scalar property, the resolved value is the one the last of them gives.
C18_LastMatchingScopeWins ==
    resolved_key # <<>> =>
        \A f \in ScalarFields :
            Cardinality(ScopesSetting(f, resolved_key)) >= 2 =>
                settings[f] =
                    ResolvedAlone(<<root[Last(ScopesSetting(f, resolved_key))]>>,
                                  resolved_key)[f]

\* the include directories of the file in document order, as the getter
\* reads each
FileIncludeDirectories ==
    LET raw == SplitItems(
                   ElementTexts(root,
                       AllWithTag(root, "AdditionalIncludeDirectories", 1)),
                   InheritOf["AdditionalIncludeDirectories"],
                   GetProjectName(root))
    IN  [i \in 1..Len(raw) |-> ToUnixPath(raw[i])]

\* C19: the resolved include directories stand in the order in which the
\* file first names them, each once.
C19_IncludeOrderPreserved ==
    resolved_key # <<>> =>
        LET includes == settings.include_directories
        IN  \A i, j \in 1..Len(includes) :
                i < j => IndexOf(includes[i], FileIncludeDirectories)
                             < IndexOf(includes[j], FileIncludeDirectories)

(***************************************************************************)
(* Claims about map_library, _expand_macros and _get_condition_match.      *)
(***************************************************************************)
\* a library name lower-cased and without its '.lib' suffix
NormalizedForm(lib_name) ==
    LET lowered == Lower(lib_name)
    IN  IF EndsWith(lowered, <<".", "l", "i", "b">>)
        THEN SubSeq(lowered, 1, Len(lowered) - 4)
        ELSE lowered

HasPlaceholder(s) ==
    \E i \in 1..Len(s) :
        /\ MatchAt(<<"$", "(">>, s, i)
        /\ i + 2 <= Len(s)
        /\ s[i + 2] # ")"
        /\ \E j \in (i + 3)..Len(s) : s[j] = ")"

\* C16: whatever string _expand_macros is given, the string it returns
\* holds no placeholder of the form $(name).
C16_NoPlaceholderLeft ==
    (call # <<>> /\ call.fn = "_expand_macros" /\ returned.done) =>
        ~HasPlaceholder(returned.value)

\* the requested pair, as a condition spells it
PairOf(config, platform) == config \o <<"|">> \o platform

\* C17: _get_condition_match holds exactly when the condition is empty or
\* contains the requested 'configuration|platform' pair, letter case aside;
\* a condition on the requested configuration and another platform does not
\* match.
C17_MatchesExactlyThePair ==
    (call # <<>> /\ call.fn = "_get_condition_match" /\ returned.done) =>
        (returned.value <=>
            \/ call.args[1] = <<>>
            \/ IsSubstr(Lower(PairOf(call.args[2], call.args[3])),
                        Lower(call.args[1])))

(***************************************************************************)
(* Claims about the generator.                                             *)
(***************************************************************************)
\* generate() has returned
Generated == generated # <<>>

\* the sections of the returned text
Output == generated[1]

\* s is in ascending order and names nothing twice
StrictlyAscending(s) ==
    \A i \in 1..(Len(s) - 1) : StrLess(s[i], s[i + 1])

\* the requested libraries of the project data
Requested == DataGet(project_data, "additional_libraries", <<>>)

\* C12: with a library mapper, the libraries emitted are exactly the
\* baseline system libraries together with the mappings of the requested
\* libraries that have one (a library the table lacks or marks unavailable
\* is dropped), in ascending order and each once.
C12_LibrariesAreSortedUnion ==
    (Generated /\ library_mapper # <<>>) =>
        /\ StrictlyAscending(Output.libraries)
        /\ Range(Output.libraries) =
               Range(default_libs)
                   \cup ({ MapLibrary(library_mapper, Requested[i])
                               : i \in 1..Len(Requested) } \ {NoneStr})

\* a list with a mapped library outside the baseline (dbghelp), one the
\* table marks unavailable (atl) and nothing else has been translated
C12_Witness ==
    /\ Generated
    /\ library_mapper # <<>>
    /\ Requested = << <<"d", "b", "g", "h", "e", "l", "p", ".", "l", "i", "b">>, <<"a", "t", "l", ".", "l", "i", "b">> >>
    /\ <<"d", "b", "g", "h", "e", "l", "p">> \in Range(Output.libraries)
    /\ Len(Output.libraries) = Len(default_libs) + 1

\* the option lists of the returned text
OptionLists == { Output.options, Output.c_options, Output.cpp_options }

\* C13: whatever the project data, the returned text defines no token of
\* SKIP_DEFINITIONS, neither in the definitions list nor by a -D option that
\* flag translation made of a /D or -D option.
C13_NoDenyListedTokenDefined ==
    Generated =>
        \A token \in SKIP_DEFINITIONS :
            /\ token \notin Range(Output.definitions)
            /\ \A options \in OptionLists : (<<"-", "D">> \o token) \notin Range(options)

\* the configuration the generator works for
ConfigOf(data) == DataGet(data, "config", Release)

BuildModeTokens == { <<"_", "D", "E", "B", "U", "G">>, <<"D", "E", "B", "U", "G">>, <<"N", "D", "E", "B", "U", "G">> }

\* C14: the definitions list of the returned text holds _DEBUG and DEBUG
\* when the configuration is Debug and NDEBUG otherwise, whatever the raw
\* definitions were.
C14_BuildModeTokenEmitted ==
    Generated =>
        IF ConfigOf(project_data) = Debug
        THEN { <<"_", "D", "E", "B", "U", "G">>, <<"D", "E", "B", "U", "G">> } \subseteq Range(Output.definitions)
        ELSE <<"N", "D", "E", "B", "U", "G">> \in Range(Output.definitions)

\* Debug data whose raw definitions name no build-mode token has been
\* translated, and both Debug tokens are in the text
C14_Witness ==
    /\ Generated
    /\ root = <<>>
    /\ ConfigOf(project_data) = Debug
    /\ DataGet(project_data, "preprocessor_definitions", <<>>) = << <<"F", "O", "O", "=", "1">> >>
    /\ Output.definitions[1] = <<"F", "O", "O", "=", "1">>
    /\ { <<"_", "D", "E", "B", "U", "G">>, <<"D", "E", "B", "U", "G">> } \subseteq Range(Output.definitions)

\* C15: the scenario file resolved for (Release, x64) and translated gives
\* options that hold '-Wall -Wextra' and '-O2' and definitions that hold
\* FOO=1, WIN32, _WINDOWS, UNICODE, _UNICODE and NDEBUG.
C15_Scenario ==
    (Generated /\ root = ScenarioFile /\ resolved_key = <<Release, x64>>) =>
        /\ { <<"-", "W", "a", "l", "l", " ", "-", "W", "e", "x", "t", "r", "a">>, <<"-", "O", "2">> } \subseteq Range(Output.options)
        /\ { <<"F", "O", "O", "=", "1">>, <<"W", "I", "N", "3", "2">>, <<"_", "W", "I", "N", "D", "O", "W", "S">>, <<"U", "N", "I", "C", "O", "D", "E">>, <<"_", "U", "N", "I", "C", "O", "D", "E">>,
             <<"N", "D", "E", "B", "U", "G">> } \subseteq Range(Output.definitions)

\* the scenario file has been resolved for (Release, x64), with /W4 and /O2
\* among the resolved options, and translated
C15_Witness ==
    /\ Generated
    /\ root = ScenarioFile
    /\ resolved_key = <<Release, x64>>
    /\ project_data.additional_options = << <<"/", "W", "4">>, <<"/", "O", "2">> >>
    /\ <<"F", "O", "O", "=", "1">> \in Range(project_data.preprocessor_definitions)
    /\ Output.options[1] = <<"-", "W", "a", "l", "l", " ", "-", "W", "e", "x", "t", "r", "a">>

\* C20: the definitions list the resolver returns and the definitions list
\* of the returned text are both in ascending order and name nothing twice.
C20_DefinitionsSortedAndUnique ==
    (Generated /\ root # <<>>) =>
        /\ StrictlyAscending(settings.preprocessor_definitions)
        /\ StrictlyAscending(Output.definitions)


(***************************************************************************)
(* Macros of the key, flag translation, the compatibility switches.        *)
(***************************************************************************)
\* C21: while a file is resolved for a key, $(Configuration) and
\* $(Platform) stand for the configuration and the platform of that key.
C21_MacrosOfTheKey ==
    (root = MacroFile /\ resolved_key # <<>>) =>
        settings.include_directories =
            << <<"o", "u", "t", "/">> \o resolved_key[1] \o <<"/">> \o resolved_key[2] >>

\* the option handed to _convert_msvc_flag, as the function reads it
FlagOfCall == Strip(call.args[1])

FlagConverted == call.fn = "_convert_msvc_flag" /\ returned.done

\* C22: _convert_msvc_flag answers an option of the switch table with its
\* replacement; otherwise /Dx with -Dx and /Ix with -Ix; any other option
\* that starts with '/' with None; no answer begins with '/'.
C22_FallbackChain ==
    FlagConverted =>
        /\ IF HasKey(MSVC_TO_GCC_FLAGS, FlagOfCall)
           THEN \E n \in 1..Len(MSVC_TO_GCC_FLAGS) :
                    /\ MSVC_TO_GCC_FLAGS[n][1] = FlagOfCall
                    /\ MSVC_TO_GCC_FLAGS[n][2] = returned.value
           ELSE IF StartsWith(FlagOfCall, <<"/", "D">>) \/ StartsWith(FlagOfCall, <<"/", "I">>)
           THEN returned.value = <<"-">> \o Tail(FlagOfCall)
           ELSE StartsWith(FlagOfCall, <<"/">>) => returned.value = NoneStr
        /\ ~StartsWith(returned.value, <<"/">>)

\* an unknown switch and a switch of each family have been translated
C22_Witness ==
    /\ FlagConverted
    /\ FlagOfCall = <<"/", "Z", "x">>
    /\ returned.value = NoneStr

\* the fixed cross-compilation compatibility switches
CompatibilitySwitches ==
    { <<"-", "W", "n", "o", "-", "d", "e", "p", "r", "e", "c", "a", "t", "e", "d", "-", "d", "e", "c", "l", "a", "r", "a", "t", "i", "o", "n", "s">>, <<"-", "W", "n", "o", "-", "w", "r", "i", "t", "e", "-", "s", "t", "r", "i", "n", "g", "s">>, <<"-", "m", "u", "n", "i", "c", "o", "d", "e">>,
      <<"-", "f", "n", "o", "-", "s", "t", "r", "i", "c", "t", "-", "a", "l", "i", "a", "s", "i", "n", "g">>, <<"-", "f", "m", "s", "-", "e", "x", "t", "e", "n", "s", "i", "o", "n", "s">>,
      <<"-", "W", "n", "o", "-", "e", "x", "p", "a", "n", "s", "i", "o", "n", "-", "t", "o", "-", "d", "e", "f", "i", "n", "e", "d">> }

\* how many switches of the emitted list come from the project's
\* additional options
TranslatedCount ==
    Len(ConvertedFlags(DataGet(project_data, "additional_options", <<>>)))

\* C23: the single-language option list holds every compatibility switch,
\* each of them after all the switches translated from the project's
\* additional options.
C23_CompatibilitySwitchesFollow ==
    (Generated /\ ~Output.is_mixed) =>
        \A switch \in CompatibilitySwitches :
            \E i \in 1..Len(Output.options) :
                /\ Output.options[i] = switch
                /\ \A j \in 1..TranslatedCount :
                       Output.options[j] # switch => j < i

(***************************************************************************)
(* The linker switches, projects of C and C++ sources, the project data.   *)
(***************************************************************************)
\* the entry point's name as a whole word, then an opening parenthesis,
\* blanks allowed between the two
HasWideSignature(text) ==
    \E name \in { <<"w", "m", "a", "i", "n">>, <<"w", "W", "i", "n", "M", "a", "i", "n">> }, gap \in { <<>>, <<" ">>, <<" ", " ">> } :
        \E i \in 1..Len(text) :
            /\ MatchAt(name \o gap \o <<"(">>, text, i)
            /\ (i = 1 \/ text[i - 1] \notin WordChars)

\* the files of the project directory that the source list refers to, by
\* their name or by their name in lower case, and that can be read
ReadableSources ==
    LET source_files == DataGet(project_data, "source_files", <<>>)
    IN  { path \in DOMAIN disk :
            /\ disk[path].readable
            /\ \E i \in 1..Len(source_files) :
                   \/ path = ToUnixPath(source_files[i])
                   \/ path = Lower(ToUnixPath(source_files[i])) }

\* C24: -municode is among the linker options exactly when a source file
\* the project refers to can be read and holds the signature of a
\* wide-character entry point.
C24_MunicodeIffWideEntryPoint ==
    Generated =>
        ((\E i \in 1..Len(Output.link_options) :
              Output.link_options[i] = <<"-", "m", "u", "n", "i", "c", "o", "d", "e">>)
            <=> (\E path \in ReadableSources : HasWideSignature(disk[path].text)))

\* a project whose source, found under its lower-case name, declares wWinMain
C24_Witness ==
    /\ Generated
    /\ <<"s", "r", "c", "/", "u", "t", "i", "l", ".", "c">> \in ReadableSources
    /\ Output.link_options = << <<"-", "m", "c", "o", "n", "s", "o", "l", "e">>, <<"-", "m", "u", "n", "i", "c", "o", "d", "e">> >>

\* the project data names a C source and a C++ source
NamesCAndCpp ==
    LET source_files == DataGet(project_data, "source_files", <<>>)
    IN  /\ \E i \in 1..Len(source_files) :
               EndsWith(Lower(source_files[i]), <<".", "c">>)
        /\ \E i \in 1..Len(source_files) :
               EndsWith(Lower(source_files[i]), <<".", "c", "p", "p">>)

\* the project data without its source list: a single-language project
WithoutSources ==
    [key \in DOMAIN project_data \ {"source_files", "c_source_files",
                                    "cpp_source_files"} |-> project_data[key]]

\* C25: for a project of C and C++ sources generate emits one option set
\* for the C sources and one for the C++ sources and no target-wide set,
\* and one definitions list and one library list, each the list the same
\* data gives for a single-language project.
C25_MixedProjectOptionSets ==
    (Generated /\ NamesCAndCpp) =>
        /\ Output.is_mixed
        /\ Output.options = <<>>
        /\ Output.c_options # <<>>
        /\ Output.cpp_options # <<>>
        /\ Output.c_options # Output.cpp_options
        /\ \E seed \in HashSeeds :
               LET single == GenerateOf(WithoutSources, library_mapper, disk, seed)
               IN  /\ ~single.is_mixed
                   /\ single.options # <<>>
                   /\ Output.definitions = single.definitions
                   /\ Output.libraries = single.libraries

\* a project of one C and one C++ source has been translated
C25_Witness ==
    /\ Generated
    /\ NamesCAndCpp
    /\ Output.sources_c = << <<"s", "r", "c", "/", "u", "t", "i", "l", ".", "c">> >>
    /\ Output.sources_cxx = << <<"m", "a", "i", "n", ".", "c", "p", "p">> >>

\* C26: generate leaves the project data it was constructed with as it
\* was: every field, the include_directories list among them, has after
\* the call the value it had before.
C26_ProjectDataUnchanged ==
    [][(root = <<>> /\ generated = <<>> /\ generated' # <<>>)
           => project_data' = project_data]_vars

\* the type the project file declares in its ConfigurationType element
DeclaredType == root[1].children[1].text

DeclaresType ==
    /\ root # <<>>
    /\ root[1].tag = "PropertyGroup"
    /\ root[1].children[1].tag = "ConfigurationType"

\* C27: the build script generated from a project file creates the
\* artifact the file declares: DynamicLibrary a shared library with suffix
\* .dll, StaticLibrary a static library with suffix .lib, Application an
\* executable with suffix .exe.
C27_ArtifactTypeFollowsProject ==
    (Generated /\ DeclaresType) =>
        /\ DeclaredType = <<"D", "y", "n", "a", "m", "i", "c", "L", "i", "b", "r", "a", "r", "y">> =>
               Output.target = "add_library SHARED" /\ Output.suffix = ".dll"
        /\ DeclaredType = <<"S", "t", "a", "t", "i", "c", "L", "i", "b", "r", "a", "r", "y">> =>
               Output.target = "add_library STATIC" /\ Output.suffix = ".lib"
        /\ DeclaredType = <<"A", "p", "p", "l", "i", "c", "a", "t", "i", "o", "n">> =>
               Output.target = "add_executable" /\ Output.suffix = ".exe"

\* the emitted form of the sources the project data lists
ListedSources == Range(GetSourceFiles(project_data))

\* C29: in a project of C and C++ sources every source file of the source
\* list is in exactly one of SOURCES_C and SOURCES_CXX.
C29_EverySourceInOneFamily ==
    (Generated /\ Output.is_mixed) =>
        \A src \in ListedSources :
            /\ src \in Range(Output.sources_c) \cup Range(Output.sources_cxx)
            /\ src \notin Range(Output.sources_c) \cap Range(Output.sources_cxx)

(***************************************************************************)
(* The optimization level.                                                 *)
(***************************************************************************)
\* the scopes of the file that set Optimization
OptimizationScopes ==
    { i \in 1..Len(root) :
          \E c \in 1..Len(root[i].children) :
              root[i].children[c].tag = "Optimization" }

\* the level the Optimization value of a scope stands for
LevelOf(text) ==
    IF text = <<"D", "i", "s", "a", "b", "l", "e", "d">> THEN <<"-", "O", "0">>
    ELSE IF text = <<"M", "a", "x", "S", "p", "e", "e", "d">> THEN <<"-", "O", "2">>
    ELSE IF text = <<"F", "u", "l", "l">> THEN <<"-", "O", "3">>
    ELSE IF text = <<"M", "i", "n", "S", "p", "a", "c", "e">> THEN <<"-", "O", "s">>
    ELSE <<>>

\* C30: the resolved optimization is the level of the Optimization value of
\* the first matching scope that carries one: Disabled -O0, MaxSpeed -O2,
\* Full -O3, MinSpace -Os. Stated on files in which one scope sets it.
C30_OptimizationLevels ==
    (resolved_key # <<>> /\ Cardinality(OptimizationScopes) = 1) =>
        LET scope == root[CHOOSE i \in OptimizationScopes : TRUE]
        IN  ScopeContributes(scope, resolved_key) =>
                settings.optimization = LevelOf(scope.children[1].text)

(***************************************************************************)
(* The queries of the solution parser.                                     *)
(***************************************************************************)
\* C28: no query changes the project registry, the dependency map or the
\* configuration list, and get_build_order returns for a filter the order
\* it returned for that filter before.
C28_QueriesArePure ==
    [][/\ projects' = projects
       /\ dependencies' = dependencies
       /\ build_configurations' = build_configurations
       /\ (pc = "done" /\ pc' = "idle" /\ last_order[project_type] # <<>>)
              => ret'.value = last_order[project_type][1]]_vars

\* get_build_order has returned an order of several projects, and has
\* been called with every filter
C28_Witness ==
    /\ ret.op = "get_build_order"
    /\ Len(ret.value) > 1
    /\ last_order[ret.arg] = <<ret.value>>
    /\ \A ptype \in Filters : last_order[ptype] # <<>>

====
